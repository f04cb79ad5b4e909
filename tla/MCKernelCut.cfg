SPECIFICATION MCSpec
CONSTANTS
    root = root
    prov = prov
    prov2 = prov2
    dep = dep
    kid = kid
    kid2 = kid2
    svc = svc
    ev = ev
    c1 = c1
    c2 = c2
    c3 = c3
    Focuses = {"lifecycle"}
    NoOne = NoOne
    inactive = inactive
    Fiber = {root, prov, dep, kid, kid2}
    Root = root
    Client = {c1}
    Name = {svc}
    Event = {ev}
    Hosts = {root}
    TopLevel = {prov, dep}
    Flaky = {}
    Returns = {}
    Killable = {prov, dep}
    CutRetract = TRUE
    Foreign = {}
    MaxOps = 4
    Inject <- MCInject
    Kids <- MCKids
    Script <- MCScript
INVARIANTS
    SettledEpoch
