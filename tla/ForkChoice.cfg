SPECIFICATION Spec
CONSTANTS
    g = g a1 = a1 a2 = a2 a3 = a3 a4 = a4 b1 = b1 b2 = b2 b3 = b3
    c3 = c3 x2 = x2 y3 = y3 e3 = e3
    None = None
    Blocks <- Plain
    Genesis = g
    Parent <- PlainParent
    Work <- PlainWork
    BadTime = {}
    RejectMain = {}
    RejectAlt = {}
    MinSamples = 6
    MaxAge = 10
INVARIANT Heaviest
