CONSTANTS
    Types = {"armor_stand"}
SPECIFICATION FlagsSpec
INVARIANTS StaleFlagsReplaced
