\* One producer and the keyboard; buffers of one place (refused to both) and
\* of two.
SPECIFICATION LiveProgramSpec
CONSTANTS
    main = main
    consumer = consumer
    keyboard = keyboard
    p1 = p1
    Threads <- WithOne
    Sems <- BufferSems
    InitValues = {0, 1, 2}
    Main = main
    Consumer = consumer
    Keyboard = keyboard
    Producers <- OneProducer
    Sizes = {1, 2}
    Bang = Bang
\* The program ends.
CHECK_DEADLOCK FALSE
INVARIANTS
    PlacesAccountedFor
    UsersBeforeDelete
PROPERTIES
    ImplementsChannel
    Finishes
    PutsReturn
