SPECIFICATION LinkSpec
CONSTANT
    Commands = {"c1", "c2"}
PROPERTY
    CommandsWritten
