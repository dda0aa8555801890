SPECIFICATION Spec
CONSTANTS
    NumWindows = 2
    Layer <- MCLayer
    Process <- MCProcess
    Compositor <- MCCompositor
    InputServer <- MCInputServer
    InputRingSize = 2
    MaxInputEvents = 2
    MaxEvents = 3
INVARIANTS EventsInOrder FocusIsKnown NoForgottenInput
CHECK_DEADLOCK FALSE
