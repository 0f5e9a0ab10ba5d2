SPECIFICATION Spec
CONSTANTS
  Processes = {p1, p2}
  Commands <- CommandsChecked
  Shells <- ShellsChecked
  MaxImages = 3
  None = None
SYMMETRY Symmetry
INVARIANTS
  OptionsConsistent OptionsReach
