SPECIFICATION BulkSpec
CONSTANTS
    x = x  y = y  z = z  w = w  n = n  p1 = p1  q1 = q1  o1 = o1  arxiv = arxiv
    issn = issn  t = t  c = c  lang = lang  e = e  f = f  g = g  h = h
    u = u  v = v  broken = broken  arxivPdf = arxivPdf  r = r  s = s  k = k  l = l
    ExtId = {x, y, z, w, n, p1, q1, o1, arxiv, issn}
    OwnId = {p1, q1, o1}
    ArxivId = {arxiv}
    Url = {u, v, broken, arxivPdf}
    BrokenUrl = {broken}
    ArxivUrl = {arxivPdf}
    Link = {r, s, t}
    Gone = {t}
    Mark = {k, l, c, lang, e, f, g, h}
    Fields = {k, l}
    Extra = {e, f, g, h}
    Entry = {{e, f}, {h}}
    JstorValue = {c, lang}
    Protected = {3}
    MaxUrls = 2
    MaxLinks = 2
    EditBatchSize = 2
    MaxOthers = 2
    MaxDeaths = 1
    Updating <- MCUpdating
    Seed <- MCSeed
    Files <- MCFiles
INVARIANTS BulkTypeOK MergesUnchained
PROPERTIES MergesWhole NothingTakenBack RerunsSettle
