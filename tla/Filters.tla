------------------------------ MODULE Filters ------------------------------
(***************************************************************************)
(* The filter of a subscription: how bus.subscribe makes it from the call  *)
(* and the env the connection is bound to (rs/base/src/facaderpc.rs), and  *)
(* which of the envelopes the hub fans out it lets through                 *)
(* (rs/bus/src/filter.rs).  A topic and a pattern are sequences of         *)
(* segments; a pattern may hold the wildcards "*", for one segment, and    *)
(* "**", for any number.  No caller sets the tags of a filter.             *)
(***************************************************************************)
EXTENDS Naturals, Sequences, Focus

CONSTANTS
  Segment,           \* what stands between the slashes of a topic or a pattern
  RESERVED_NAMESPACES,
  Anyone,            \* None, for the env and the session of a filter or an envelope
  SubscribeBodies,   \* calls of bus.subscribe, [topics, levels, env, session]
  EnvelopeInputs,    \* envelopes published, [topic, level, env, session]
  BindEnvs           \* envs auth.scope binds a connection to

ASSUME FilterAssumption ==
  /\ \A body \in SubscribeBodies : body.topics \subseteq Seq(Segment)
  /\ \A e \in EnvelopeInputs : e.topic \in Seq(Segment)

VARIABLES
  bound,       \* the env this connection is bound to
  subFilter,   \* the filter of its subscription, <<>> while it has none
  offered      \* the envelope last fanned out, and whether the subscriber got it

filterVars == <<bound, subFilter, offered>>

---------------------------------------------------------------------------
is_reserved(topic) == Head(topic) \in RESERVED_NAMESPACES

\* seg_match() on the pattern from i and the topic from j; rest[k] is what it answers
\* on the pattern after i and the topic from k.
seg_match(p, t, i, j, rest) ==
  IF p[i] = "**" THEN i = Len(p) \/ \E k \in j .. Len(t) + 1 : rest[k]
  ELSE j <= Len(t) /\ p[i] \in {"*", t[j]} /\ rest[j + 1]

\* glob(): m[i][j] is seg_match on the pattern from i and the topic from j.
glob(p, t) ==
  LET m[i \in 1 .. Len(p) + 1] ==
        [j \in 1 .. Len(t) + 1 |->
           IF i > Len(p) THEN j > Len(t) ELSE seg_match(p, t, i, j, m[i + 1])] IN
  m[1][1]

\* Filter::matches().
matches(f, e) ==
  /\ ~(f.scoped /\ is_reserved(e.topic) /\ e.env # f.env)
  /\ f.topics # {} => \E p \in f.topics : glob(p, e.topic)
  /\ f.levels # {} => e.level \in f.levels
  /\ f.env # Anyone => e.env = f.env
  /\ f.session # Anyone => e.session = f.session

---------------------------------------------------------------------------
FilterInit == bound = Anyone /\ subFilter = <<>> /\ offered = <<>>

\* auth.scope, with the token of that env.
BindScope(env) ==
  /\ bound' = env
  /\ UNCHANGED <<subFilter, offered>>

\* bus_subscribe() and filter_from(); scoped_opt() refuses another env than the
\* one the connection is bound to.
Subscribe(body) ==
  /\ subFilter = <<>>
  /\ bound # Anyone => body.env \in {Anyone, bound}
  /\ subFilter' = [topics |-> body.topics, levels |-> body.levels, session |-> body.session,
                   env |-> IF bound = Anyone THEN body.env ELSE bound,
                   scoped |-> bound # Anyone]
  /\ UNCHANGED <<bound, offered>>

\* fan_out(), for this subscriber.
Offer(e) ==
  /\ subFilter # <<>>
  /\ offered' = <<e, matches(subFilter, e)>>
  /\ UNCHANGED <<bound, subFilter>>

FilterNext ==
  \/ \E env \in BindEnvs : BindScope(env)
  \/ \E body \in SubscribeBodies : Subscribe(body)
  \/ \E e \in EnvelopeInputs : Offer(e)

FilterSpec == FilterInit /\ [][FilterNext]_filterVars

---------------------------------------------------------------------------
(* Properties.                                                             *)

\* What a pattern means, without the search: the topic can be cut into as many
\* pieces as the pattern has segments, one after the other, each as its segment
\* allows.
Piece(p, t, i, a, b) ==
  IF p[i] = "**" THEN b >= a ELSE b = a + 1 /\ p[i] \in {"*", t[b]}
Fits(p, t) ==
  \E cut \in [0 .. Len(p) -> 0 .. Len(t)] :
    /\ cut[0] = 0 /\ cut[Len(p)] = Len(t)
    /\ \A i \in 1 .. Len(p) : Piece(p, t, i, cut[i - 1], cut[i])

\* A subscriber gets the envelopes one of its patterns fits, whatever wildcards
\* stand beside one another and at the ends; and one that was bound to an env when
\* it subscribed gets that env's only, its reserved topics included, whatever it
\* asked for (Filter::matches, seg_match, bus_subscribe).  The reserved topics of
\* its own env are what matches() says of itself (filter.rs:49-53) and what
\* rs/README.md:1252 says; the comments at filter.rs:4-6 and 27-29 say that a bound
\* subscriber gets no reserved topic at all, which the code does not do.
FiltersAreExact ==
  offered # <<>> =>
    LET e == offered[1]
        wanted == /\ subFilter.topics = {} \/ \E p \in subFilter.topics : Fits(p, e.topic)
                  /\ subFilter.levels = {} \/ e.level \in subFilter.levels
                  /\ subFilter.env \in {Anyone, e.env} /\ subFilter.session \in {Anyone, e.session} IN
    /\ offered[2] <=> wanted
    /\ (offered[2] /\ subFilter.scoped) => e.env = subFilter.env /\ e.env # Anyone
=============================================================================
