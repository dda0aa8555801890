SPECIFICATION Spec
CONSTANTS
    NumWindows = 2
    Process <- MCProcess
    Compositor <- MCCompositor
    InputServer <- MCInputServer
    MaxFrames <- MCMaxFrames
INVARIANTS NewFrameIsStable NoForgottenFrame
PROPERTIES FramesInOrder FrameIsShown
