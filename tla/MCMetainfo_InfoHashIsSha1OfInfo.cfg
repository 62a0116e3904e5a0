CONSTANTS
    URL = {u1, u2}
    Magnet = {g1, g2}
    Path = {p1, p2, p3}
    RawDocs <- MCRawDocs
    URLContent <- MCURLContent
    PathContent <- MCPathContent
    MagnetIH <- MCMagnetIH
    BadMagnet = BadMagnet
    NoContent = NoContent
    Garbage = Garbage
    Nil = Nil
    u1 = u1
    u2 = u2
    p1 = p1
    p2 = p2
    p3 = p3
    g1 = g1
    g2 = g2
SPECIFICATION Spec
INVARIANT InfoHashIsSha1OfInfo
