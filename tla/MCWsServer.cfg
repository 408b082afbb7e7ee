SPECIFICATION MCSpec
CONSTANTS
    Client = {boss, agent}
    Admins = {boss}
    Chat = {h1}
    NoChat = NoChat
    NoOne = NoOne
    Stream = {messages, chats}
    Ttl = 2
    Lag = 1
    MaxEvents = 2
    MaxUsers = 3
INVARIANTS SocketInv
PROPERTIES   NoneSkipped SilentGoes
CHECK_DEADLOCK FALSE
