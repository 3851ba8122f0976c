SPECIFICATION FairSpec
CONSTANTS
    adr = adr  finding = finding
    p1 = p1  p2 = p2  t1 = t1
    page = page  other = other  NoDir = NoDir
    Dir = {adr, finding}
    Path = {p1, p2, t1}
    DirOf <- MCDirOf
    Markdown = {p1, p2}
    Page = {page, other}
    PageDir <- MCPageDir
    Fast = {page}
    QueueCap = 1
    RingCap = 1
    MaxEvents = 2
    MaxAsks = 2
INVARIANTS TypeOK AnnouncedIsShown
PROPERTIES QueuesAreDrained ReadersCatchUp
