SPECIFICATION RequestSpec
CONSTANTS
    NodeIds = {2, 3, 5, 7, 11, 13}
    MaxInode = 12
INVARIANTS OneHopIsEnough MembersAgree
