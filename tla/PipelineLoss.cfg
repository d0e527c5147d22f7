SPECIFICATION FairSpec
CONSTANTS
    NoThread = NoThread
    Size = 3
    Generator = g
    Processor = p
    Printers = {r1, r2}
    Threads = {g, p, r1, r2}
    In = in
    Out = out
    Channels = {in, out}
    Char = {a, b}
    Input <- Sample
INVARIANT EveryChunkArrives
