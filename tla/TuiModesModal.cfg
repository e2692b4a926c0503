CONSTANTS
  None = None
  Pressed = {"esc", "enter", "tab", "backspace",
             "w", "f", "t", "d", "c", "y", "g", "z", "i", "a", "v", "x",
             "o", "p", "u", "r", "N", "D", "q", "zero", "digit",
             "slash", "colon", "dot", "bracket",
             "ctrl_c", "ctrl_e", "ctrl_f", "ctrl_l", "ctrl_p", "ctrl_s", "ctrl_w",
             "ctrl_space"}
  MaxBuilds = 1
SPECIFICATION Spec
INVARIANT ModalInLockstep
CHECK_DEADLOCK FALSE
