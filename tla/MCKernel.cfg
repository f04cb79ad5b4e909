SPECIFICATION MCSpec
CONSTANTS
    root = root
    prov = prov
    prov2 = prov2
    dep = dep
    kid = kid
    kid2 = kid2
    svc = svc
    ev = ev
    c1 = c1
    c2 = c2
    c3 = c3
    Focuses = {"lifecycle", "providers"}
    NoOne = NoOne
    inactive = inactive
    Fiber = {root, prov, dep, kid, kid2}
    Root = root
    Client = {c1}
    Name = {svc}
    Event = {ev}
    Hosts = {root}
    TopLevel = {prov, dep}
    Flaky = {kid}
    Returns = {kid}
    Killable = {prov, dep}
    CutRetract = FALSE
    Foreign = {}
    MaxOps = 4
    Inject <- MCInject
    Kids <- MCKids
    Script <- MCScript
SYMMETRY ClientsAlike
INVARIANTS TypeOK NoOrphanRows StackIsExact EpochsSettle
PROPERTIES ServicesAreKept
