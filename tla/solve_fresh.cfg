SPECIFICATION Spec
CONSTANTS
  Jobs = {j1, j2}
  Tabs = 2
PROPERTIES
  FreshStart
