SPECIFICATION Spec
CONSTANTS
    Bodies = {"drone", "wand"}
    MaxPackets = 2
INVARIANT RightFile
