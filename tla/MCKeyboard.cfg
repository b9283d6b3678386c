CONSTANTS
    KB_IN_BYTES = 2
    TTY_IN_BYTES = 1
    NR_CONSOLE = 2
    KeySets = {{"CTRL_R", "ALT_L", "A", "F1", "F2"},
               {"SHIFT_L", "A", "ENTER", "PRINTSCREEN", "PAUSEBREAK"}}
    KeysAfterLoss = {"A"}
SPECIFICATION FairSpec
INVARIANTS RestAgrees
PROPERTIES EchoFollowsTyping ReadEnds KbInIsQueue
