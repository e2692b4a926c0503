CONSTANTS
  None = None
  Pressed = {"esc", "enter", "tab", "backspace",
             "w", "t", "d", "c", "y", "g", "z", "i", "a", "v", "x",
             "o", "p", "u", "r", "N", "D", "q", "zero",
             "slash", "colon", "dot", "bracket",
             "ctrl_c", "ctrl_e", "ctrl_f", "ctrl_l", "ctrl_p", "ctrl_s", "ctrl_w",
             "ctrl_space"}
  MaxBuilds = 1
SPECIFICATION Spec
INVARIANTS TypeOK ModeHasForm
PROPERTIES FormKeepsMode NoteKeptUnderModal OperatorSpent DropsOnlyUnderModal SearchAnswered
CHECK_DEADLOCK FALSE
