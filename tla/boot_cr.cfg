SPECIFICATION Spec
CONSTANTS
    WORD = 256
    LONGWORD = 5000
    BF = 5
    DEFAULT_SIZE = 3
    LineLen = 14
    Words = 6
    Pid = 1
    Programs <- MCPrograms
    Arguments <- MCArguments
    MaxCalls = 2
    MAX_BUFFER_LEN = 3
    FifoDepth = 2
    Keys = {104, 108, 114, 13, 127, 200}
    MaxTyped = 6
    HELP <- MCHELP
    HELLO <- MCHELLO
    REBOOT <- MCREBOOT
    LOADKERNEL <- MCLOADKERNEL
    Image <- MCImage
    Callers = {t1, t2, t3}
    QueueLen = 2
    MaxMbox = 5
    Nodes = 4
    Texts <- MCTexts
    Numbers <- MCNumbers
    Formats <- MCFormats
    TextFormats <- MCTextFormats
    Names <- MCNames
    Lines <- MCLines
    Archives <- MCArchives
    Initramfs <- MCInitramfs
INVARIANT
    KernelIntact
