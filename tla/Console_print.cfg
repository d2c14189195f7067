SPECIFICATION Spec
CONSTANTS Cap = 2  Text = 3  Note = 1  Repeats = 2  Limit = 2  MaxLines = 4

PROPERTY PrintEnds
CHECK_DEADLOCK FALSE
