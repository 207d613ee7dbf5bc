\* Three updates, two base commits; any two faults or acts of people.
SPECIFICATION FairSpec
CONSTANTS
    MaxUpdate = 3
    MaxBase = 2
    OpenPRs = 2
    MaxEvents = 2
    Patch <- Patches
    Inherits <- Covers
INVARIANTS
    ClosedHasSuccessor
    CommentedOnce
    NothingUnrecorded
PROPERTIES
    ImplementsProposals
    ClosedAsChecked
    EventuallyProposed
    OlderReplaced
