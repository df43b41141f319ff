SPECIFICATION Spec
CONSTANTS
    NEOPIXEL_BRIGHTNESS = 3
    FULL_BRIGHTNESS = 255
    LUA_COMMAND_TIMEOUT = 2
    PI_HEARTBEAT_TIMEOUT = 2
    CMD_BUF = 3
    Printable = {1, 2}
    STX = 7
    NEWLINE = 6
    BYTES = 8
    PASS_BYTES = 3
    MaxQueue = 5
    ConsoleMessages = {1, 5}
    Words <- MCWords
    Messages <- MCMessages
INVARIANTS StripTellsTheState NothingForgotten
PROPERTY ActedInOrder
