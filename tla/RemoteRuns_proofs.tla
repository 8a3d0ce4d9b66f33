------------------------ MODULE RemoteRuns_proofs ------------------------
(***************************************************************************)
(* The operations of the Ansible manager on a host keep their promises,    *)
(* for any number of them and whatever goes wrong.                         *)
(*                                                                         *)
(* The inductive invariant follows an operation through its sessions: which *)
(* of them it is at and which follow, what of a session's commands is left, *)
(* and that nothing of what is to come has begun yet.                       *)
(***************************************************************************)
EXTENDS RemoteRuns, SequenceTheorems, FiniteSetTheorems, TLAPS

------------------------------------------------------------------------------
(* The inductive invariant.                                                  *)

\* The commands of a session, and those that may be left of them.
CommandsOf(what) ==
  CASE what \in {"preflight", "status"} -> <<"look">>
    [] what = "bootstrap" -> <<"bootstrap">>
    [] what = "job" -> <<"mkdir", "upload", "syntax", "play">>
    [] what = "postCheck" -> <<"check">>
    [] what = "service" -> <<"restart">>
LeftOf(what) ==
  {CommandsOf(what)} \cup
    (IF what = "job"
     THEN {<<"upload", "syntax", "play">>, <<"syntax", "play">>, <<"play">>, <<"rm">>}
     ELSE {})

SessionKinds == {"preflight", "status", "bootstrap", "job", "postCheck", "service"}
IsSession(s) ==
  /\ s = Session(s.what, s.of, s.what \notin {"preflight", "status"}, CommandsOf(s.what))
  /\ s.what \in SessionKinds
SessionRecords ==
  [what : SessionKinds, of : Profiles \cup {None}, listens : BOOLEAN,
   commands : {CommandsOf(w) : w \in SessionKinds},
   left : UNION {LeftOf(w) : w \in SessionKinds}]

\* A session of an operation as it begins, and the sessions after it.
Plain(p) ==
  {<<Preflight(p), <<Job(p), PostCheck(p)>>>>, <<Job(p), <<PostCheck(p)>>>>,
   <<PostCheck(p), <<>>>>}
OverDocker(p) ==
  {<<Preflight(Docker), <<Job(Docker), PostCheck(Docker), Job(p), PostCheck(p)>>>>,
   <<Job(Docker), <<PostCheck(Docker), Job(p), PostCheck(p)>>>>,
   <<PostCheck(Docker), <<Job(p), PostCheck(p)>>>>}
Stages(kind, p) ==
  CASE kind = "run" -> Plain(p) \cup (IF p \in OnDocker THEN OverDocker(p) ELSE {})
    [] kind = "repair" ->
         {<<Preflight(None), <<Status, Bootstrap, Preflight(None)>>>>,
          <<Status, <<Bootstrap, Preflight(None)>>>>,
          <<Bootstrap, <<Preflight(None)>>>>, <<Preflight(None), <<>>>>}
    [] kind = "bootstrap" -> {<<Status, <<Bootstrap>>>>, <<Bootstrap, <<>>>>}
    [] kind = "service" -> {<<Service, <<>>>>}

Kinds == {"run", "repair", "bootstrap", "service"}
OpTypes ==
  [kind : Kinds \cup {None}, of : Profiles \cup {None}, todo : Seq(SessionRecords),
   link : {"none", "connecting", "ready", "waiting"}, tries : Nat,
   failing : BOOLEAN, aborted : BOOLEAN, cut : BOOLEAN,
   result : {None, "ok", "failed", "cancelled"}]

CommandNames ==
  {"look", "bootstrap", "mkdir", "upload", "syntax", "play", "rm", "check", "restart"}
ProcessRecords ==
  [op : Operations, command : CommandNames, of : Profiles \cup {None}, heard : BOOLEAN, n : {0}]
BegunRecords ==
  [op : Operations, command : Changing, of : Profiles \cup {None}, n : {0}, late : {FALSE}]

RemoteTypes ==
  /\ host \in Hosts
  /\ ops \in [Operations -> OpTypes]
  /\ jobs \subseteq Operations \X (Profiles \cup {None})
  /\ processes \subseteq ProcessRecords /\ begun \subseteq BegunRecords

Fresh(s) == [s EXCEPT !.left = s.commands]
Stage(id) == <<Fresh(Now(id)), Tail(ops[id].todo)>>

\* What there is to know of the sessions of an operation that is under way.
OnItsWay(id) ==
  /\ ops[id].kind \in Kinds /\ (ops[id].kind = "run" <=> ops[id].of # None)
  /\ ops[id].todo # <<>>
  /\ Stage(id) \in Stages(ops[id].kind, ops[id].of)
  /\ Now(id).left \in LeftOf(Now(id).what)
  /\ ops[id].link # "ready" => Now(id).left = Now(id).commands
  /\ ops[id].link # "none" /\ Now(id).listens => ~ops[id].aborted

Began(id, command, profile) ==
  \E b \in begun : b.op = id /\ b.command = command /\ b.of = profile

\* Nothing of the profile has begun.
Untouched(id, profile) == \A b \in begun : ~(b.op = id /\ b.of = profile)

\* Nothing that is to come has begun, except for the command that runs.
InStock(id) ==
  /\ \A i \in DOMAIN Now(id).left :
       Began(id, Now(id).left[i], Now(id).of) => i = 1 /\ Pending(id) # {}
  /\ \/ Now(id).what = "status"
     \/ Now(id).what = "preflight" /\ (ops[id].kind = "run" \/ Tail(ops[id].todo) # <<>>)
     => Untouched(id, Now(id).of)
  /\ Now(id).what = "preflight" /\ ops[id].kind = "run" /\ Now(id).of = ops[id].of =>
       Untouched(id, Docker)
  /\ ops[id].kind = "run" /\ Now(id).of # ops[id].of => Untouched(id, ops[id].of)

Complete(h) == h.curl /\ h.ss /\ h.python /\ h.ansible

\* What an operation has achieved.
Achieved(id) ==
  /\ \/ Now(id).what = "postCheck"
     \/ Now(id).left = <<"rm">> /\ ~ops[id].failing
     => <<id, "play", Now(id).of>> \in succeeded
  /\ ops[id].kind = "repair" /\ Tail(ops[id].todo) = <<>> => Complete(host)

ProcessesOK ==
  /\ \A p \in processes : p.heard =>
       /\ Live(p.op) /\ ops[p.op].link = "ready"
       /\ p.command = Command(p.op) /\ p.of = Now(p.op).of
  /\ \A p, q \in processes : p.heard /\ q.heard /\ p.op = q.op => p = q
  /\ \A p \in processes : ~p.heard /\ p.command = "mkdir" =>
       ops[p.op].cut /\ ops[p.op].result # None
  /\ \A p \in processes : p.command = "play" => p.of \in Profiles

\* A directory is that of the job under way, or its operation was cut off from it.
JobsOK ==
  \A job \in jobs :
    \/ ops[job[1]].cut
    \/ /\ Live(job[1]) /\ Now(job[1]).what = "job" /\ Now(job[1]).of = job[2]
       /\ Now(job[1]).left # Now(job[1]).commands

OperationOK(id) ==
  /\ ops[id].kind = None => ops[id] = Absent /\ \A b \in begun : b.op # id
  /\ Live(id) => OnItsWay(id) /\ InStock(id) /\ Achieved(id)
  /\ ops[id].kind = "run" /\ ops[id].result = "ok" =>
       {<<id, "play", ops[id].of>>, <<id, "check", ops[id].of>>} \subseteq succeeded
  /\ ops[id].kind \in {"repair", "bootstrap"} /\ ops[id].result = "ok" => Complete(host)

RemoteIInv ==
  RemoteTypes /\ (\A id \in Operations : OperationOK(id)) /\ ProcessesOK /\ JobsOK

(* Every session the calls are made of is one of the six kinds, with its own commands. *)
LEMMA Constructors ==
  ASSUME NEW p \in Profiles \cup {None}
  PROVE  \A s \in {Preflight(p), Status, Bootstrap, Job(p), PostCheck(p), Service} :
           IsSession(s) /\ s \in SessionRecords
<1>1. \A w \in SessionKinds :
        /\ CommandsOf(w) \in {CommandsOf(x) : x \in SessionKinds}
        /\ CommandsOf(w) \in UNION {LeftOf(x) : x \in SessionKinds}
  BY DEF LeftOf
<1>2. Preflight(p) \in SessionRecords /\ IsSession(Preflight(p))
  BY <1>1 DEF Preflight, Session, IsSession, SessionRecords, SessionKinds, CommandsOf
<1>3. Job(p) \in SessionRecords /\ IsSession(Job(p))
  BY <1>1 DEF Job, Session, IsSession, SessionRecords, SessionKinds, CommandsOf
<1>4. PostCheck(p) \in SessionRecords /\ IsSession(PostCheck(p))
  BY <1>1 DEF PostCheck, Session, IsSession, SessionRecords, SessionKinds, CommandsOf
<1>5. Status \in SessionRecords /\ IsSession(Status)
  BY <1>1 DEF Status, Session, IsSession, SessionRecords, SessionKinds, CommandsOf
<1>6. Bootstrap \in SessionRecords /\ IsSession(Bootstrap)
  BY <1>1 DEF Bootstrap, Session, IsSession, SessionRecords, SessionKinds, CommandsOf
<1>7. Service \in SessionRecords /\ IsSession(Service)
  BY <1>1 DEF Service, Session, IsSession, SessionRecords, SessionKinds, CommandsOf
<1>8. QED
  BY <1>2, <1>3, <1>4, <1>5, <1>6, <1>7

(* Three sessions put before two others. *)
LEMMA JoinedPairs ==
  ASSUME NEW S, NEW a \in S, NEW b \in S, NEW c \in S, NEW d \in S, NEW e \in S
  PROVE  LET joined == <<a, b, c>> \o <<d, e>>
         IN  joined \in Seq(S) /\ Head(joined) = a /\ Tail(joined) = <<b, c, d, e>>
<1> DEFINE s == <<a, b, c>>  t == <<d, e>>  joined == s \o t  u == <<b, c, d, e>>
<1>1. s \in Seq(S) /\ t \in Seq(S) /\ u \in Seq(S) /\ Len(s) = 3 /\ Len(t) = 2 /\ Len(u) = 4
  OBVIOUS
<1>2. joined \in Seq(S) /\ Len(joined) = 5
  BY <1>1, ConcatProperties
<1>3. /\ joined[1] = a /\ joined[2] = b /\ joined[3] = c /\ joined[4] = d /\ joined[5] = e
  BY <1>1
<1>4. Tail(joined) \in Seq(S) /\ Len(Tail(joined)) = 4 
      /\ \A i \in 1 .. 4 : Tail(joined)[i] = joined[i + 1]
  BY <1>2, HeadTailProperties
<1>5. \A i \in 1 .. 4 : Tail(joined)[i] = u[i]
  <2>1. Tail(joined)[1] = b /\ Tail(joined)[2] = c /\ Tail(joined)[3] = d /\ Tail(joined)[4] = e
    BY <1>3, <1>4
  <2>2. u[1] = b /\ u[2] = c /\ u[3] = d /\ u[4] = e
    OBVIOUS
  <2>3. QED
    BY <2>1, <2>2
<1> HIDE DEF joined, u
<1>6. Tail(joined) = u
  BY <1>1, <1>4, <1>5, SeqEqual
<1>7. Head(joined) = a
  BY <1>2, <1>3, HeadTailProperties
<1>8. QED
  BY <1>2, <1>6, <1>7 DEF joined, u
(* What a session is for, and of which profile. *)
LEMMA Fields ==
  ASSUME NEW p
  PROVE  /\ Preflight(p).what = "preflight" /\ Preflight(p).of = p
         /\ Job(p).what = "job" /\ Job(p).of = p
         /\ PostCheck(p).what = "postCheck" /\ PostCheck(p).of = p
         /\ Status.what = "status" /\ Status.of = None
         /\ Bootstrap.what = "bootstrap" /\ Bootstrap.of = None
         /\ Service.what = "service" /\ Service.of = None
BY DEF Preflight, Job, PostCheck, Status, Bootstrap, Service, Session

\* The sessions a stage is of, by name.
Named(kind, p, x, rest) ==
  CASE kind = "run" ->
         \E q \in {p, Docker} :
           /\ q # p => p \in OnDocker
           /\ \/ x = Preflight(q) /\ rest # <<>> /\ Head(rest) = Job(q)
              \/ x = Job(q) /\ rest # <<>> /\ Head(rest) = PostCheck(q)
              \/ x = PostCheck(q) /\ q = p /\ rest = <<>>
              \/ x = PostCheck(q) /\ q # p /\ rest # <<>> /\ Head(rest) = Job(p)
    [] kind = "repair" ->
         \/ x = Preflight(None) /\ rest # <<>> /\ Head(rest) = Status /\ Tail(rest) # <<>>
         \/ x = Status /\ rest # <<>> /\ Head(rest) = Bootstrap /\ Tail(rest) # <<>>
         \/ x = Bootstrap /\ rest # <<>> /\ Head(rest) = Preflight(None) /\ Tail(rest) = <<>>
         \/ x = Preflight(None) /\ rest = <<>>
    [] kind = "bootstrap" ->
         \/ x = Status /\ rest # <<>> /\ Head(rest) = Bootstrap
         \/ x = Bootstrap /\ rest = <<>>
    [] kind = "service" -> x = Service /\ rest = <<>>

(* A stage is of known sessions, and so is what follows it. *)
LEMMA StageOf ==
  ASSUME NEW kind \in Kinds, NEW p \in Profiles \cup {None}, kind = "run" <=> p # None,
         NEW x, NEW rest, <<x, rest>> \in Stages(kind, p)
  PROVE  /\ x \in SessionRecords /\ IsSession(x) /\ rest \in Seq(SessionRecords)
         /\ Named(kind, p, x, rest)
         /\ rest # <<>> => <<Head(rest), Tail(rest)>> \in Stages(kind, p)
<1> USE DockerStandsAlone
<1> DEFINE SR == SessionRecords
<1>1. Docker \in Profiles \cup {None} /\ None \in Profiles \cup {None}
  OBVIOUS
<1>2. /\ Preflight(p) \in SR /\ Job(p) \in SR /\ PostCheck(p) \in SR
      /\ IsSession(Preflight(p)) /\ IsSession(Job(p)) /\ IsSession(PostCheck(p))
  BY Constructors
<1>3. /\ Preflight(Docker) \in SR /\ Job(Docker) \in SR /\ PostCheck(Docker) \in SR
      /\ IsSession(Preflight(Docker)) /\ IsSession(Job(Docker)) /\ IsSession(PostCheck(Docker))
  BY <1>1, Constructors
<1>4. /\ Preflight(None) \in SR /\ Status \in SR /\ Bootstrap \in SR /\ Service \in SR
      /\ IsSession(Preflight(None)) /\ IsSession(Status) /\ IsSession(Bootstrap)
      /\ IsSession(Service)
  BY <1>1, Constructors
<1> HIDE DEF SR
<1>5. <<>> \in Seq(SR)
  OBVIOUS
<1>6. CASE kind = "run"
  <2>1. Stages(kind, p) = Plain(p) \cup (IF p \in OnDocker THEN OverDocker(p) ELSE {})
    BY <1>6 DEF Stages
  <2>2. ASSUME <<x, rest>> \in Plain(p)
        PROVE  /\ x \in SR /\ IsSession(x) /\ rest \in Seq(SR)
               /\ Named(kind, p, x, rest)
               /\ rest # <<>> => <<Head(rest), Tail(rest)>> \in Plain(p)
    <3> DEFINE a == Job(p)  b == PostCheck(p)  c == Preflight(p)
    <3>0. a \in SR /\ b \in SR
      BY <1>2
    <3>a. p \in {p, Docker} /\ (p # p => p \in OnDocker)
      OBVIOUS
    <3>1. Plain(p) = {<<c, <<a, b>>>>, <<a, <<b>>>>, <<b, <<>>>>}
      BY DEF Plain
    <3> HIDE DEF a, b, c
    <3>2. /\ <<a, b>> \in Seq(SR) /\ Head(<<a, b>>) = a /\ Tail(<<a, b>>) = <<b>> /\ <<a, b>> # <<>>
          /\ <<b>> \in Seq(SR) /\ Head(<<b>>) = b /\ Tail(<<b>>) = <<>> /\ <<b>> # <<>>
      BY <3>0
    <3>3. \/ x = c /\ rest = <<a, b>>
          \/ x = a /\ rest = <<b>>
          \/ x = b /\ rest = <<>>
      BY <2>2, <3>1
    <3>4. /\ x \in SR /\ IsSession(x) /\ rest \in Seq(SR)
      BY <3>3, <3>2, <1>2, <1>5 DEF a, b, c
    <3>5. rest # <<>> => <<Head(rest), Tail(rest)>> \in Plain(p)
      BY <3>3, <3>2, <3>1
    <3>6. \/ x = Preflight(p) /\ rest # <<>> /\ Head(rest) = Job(p)
          \/ x = Job(p) /\ rest # <<>> /\ Head(rest) = PostCheck(p)
          \/ x = PostCheck(p) /\ rest = <<>>
      BY <3>3, <3>2 DEF a, b, c
    <3>7. Named(kind, p, x, rest)
      BY <3>6, <3>a, <1>6 DEF Named
    <3>8. QED
      BY <3>4, <3>5, <3>7
  <2>3. ASSUME p \in OnDocker, <<x, rest>> \in OverDocker(p)
        PROVE  /\ x \in SR /\ IsSession(x) /\ rest \in Seq(SR)
               /\ Named(kind, p, x, rest)
               /\ rest # <<>> => <<Head(rest), Tail(rest)>> \in OverDocker(p) \cup Plain(p)
    <3> DEFINE a == Job(p)  b == PostCheck(p)
               d == Preflight(Docker)  e == Job(Docker)  f == PostCheck(Docker)
    <3>0. a \in SR /\ b \in SR /\ d \in SR /\ e \in SR /\ f \in SR
      BY <1>2, <1>3
    <3>a. Docker \in {p, Docker} /\ p # Docker
      BY <2>3
    <3>1. OverDocker(p) = {<<d, <<e, f, a, b>>>>, <<e, <<f, a, b>>>>, <<f, <<a, b>>>>}
      BY DEF OverDocker
    <3>b. <<a, <<b>>>> \in Plain(p)
      BY DEF Plain
    <3> HIDE DEF a, b, d, e, f
    <3>2. /\ <<e, f, a, b>> \in Seq(SR) /\ Head(<<e, f, a, b>>) = e
          /\ Tail(<<e, f, a, b>>) = <<f, a, b>> /\ <<e, f, a, b>> # <<>>
          /\ <<f, a, b>> \in Seq(SR) /\ Head(<<f, a, b>>) = f /\ Tail(<<f, a, b>>) = <<a, b>>
          /\ <<f, a, b>> # <<>>
          /\ <<a, b>> \in Seq(SR) /\ Head(<<a, b>>) = a /\ Tail(<<a, b>>) = <<b>> /\ <<a, b>> # <<>>
      BY <3>0
    <3>3. \/ x = d /\ rest = <<e, f, a, b>>
          \/ x = e /\ rest = <<f, a, b>>
          \/ x = f /\ rest = <<a, b>>
      BY <2>3, <3>1
    <3>4. /\ x \in SR /\ IsSession(x) /\ rest \in Seq(SR)
      BY <3>3, <3>2, <1>3 DEF d, e, f
    <3>5. rest # <<>> => <<Head(rest), Tail(rest)>> \in OverDocker(p) \cup Plain(p)
      BY <3>3, <3>2, <3>1, <3>b
    <3>6. \/ x = Preflight(Docker) /\ rest # <<>> /\ Head(rest) = Job(Docker)
          \/ x = Job(Docker) /\ rest # <<>> /\ Head(rest) = PostCheck(Docker)
          \/ x = PostCheck(Docker) /\ Docker # p /\ rest # <<>> /\ Head(rest) = Job(p)
      BY <3>3, <3>2, <3>a DEF a, d, e, f
    <3>7. Named(kind, p, x, rest)
      BY <3>6, <3>a, <2>3, <1>6 DEF Named
    <3>8. QED
      BY <3>4, <3>5, <3>7
  <2>4. QED
    BY <2>1, <2>2, <2>3 DEF SR
<1>7. CASE kind = "repair"
  <2> DEFINE a == Preflight(None)  b == Status  c == Bootstrap
  <2>0. a \in SR /\ b \in SR /\ c \in SR
    BY <1>4
  <2>1. Stages(kind, p) = {<<a, <<b, c, a>>>>, <<b, <<c, a>>>>, <<c, <<a>>>>, <<a, <<>>>>}
    BY <1>7 DEF Stages
  <2> HIDE DEF a, b, c
  <2>2. /\ <<b, c, a>> \in Seq(SR) /\ Head(<<b, c, a>>) = b /\ Tail(<<b, c, a>>) = <<c, a>>
        /\ <<b, c, a>> # <<>>
        /\ <<c, a>> \in Seq(SR) /\ Head(<<c, a>>) = c /\ Tail(<<c, a>>) = <<a>> /\ <<c, a>> # <<>>
        /\ <<a>> \in Seq(SR) /\ Head(<<a>>) = a /\ Tail(<<a>>) = <<>> /\ <<a>> # <<>>
    BY <2>0
  <2>3. \/ x = a /\ rest = <<b, c, a>>
        \/ x = b /\ rest = <<c, a>>
        \/ x = c /\ rest = <<a>>
        \/ x = a /\ rest = <<>>
    BY <2>1
  <2>4. x \in SR /\ IsSession(x) /\ rest \in Seq(SR)
    BY <2>3, <2>2, <1>4, <1>5 DEF a, b, c
  <2>5. rest # <<>> => <<Head(rest), Tail(rest)>> \in Stages(kind, p)
    BY <2>3, <2>2, <2>1
  <2>6. \/ x = Preflight(None) /\ rest # <<>> /\ Head(rest) = Status /\ Tail(rest) # <<>>
        \/ x = Status /\ rest # <<>> /\ Head(rest) = Bootstrap /\ Tail(rest) # <<>>
        \/ x = Bootstrap /\ rest # <<>> /\ Head(rest) = Preflight(None) /\ Tail(rest) = <<>>
        \/ x = Preflight(None) /\ rest = <<>>
    BY <2>3, <2>2 DEF a, b, c
  <2>7. QED
    BY <2>4, <2>5, <2>6, <1>7 DEF Named, SR
<1>8. CASE kind = "bootstrap"
  <2> DEFINE b == Status  c == Bootstrap
  <2>0. b \in SR /\ c \in SR
    BY <1>4
  <2>1. Stages(kind, p) = {<<b, <<c>>>>, <<c, <<>>>>}
    BY <1>8 DEF Stages
  <2> HIDE DEF b, c
  <2>2. <<c>> \in Seq(SR) /\ Head(<<c>>) = c /\ Tail(<<c>>) = <<>> /\ <<c>> # <<>>
    BY <2>0
  <2>3. (x = b /\ rest = <<c>>) \/ (x = c /\ rest = <<>>)
    BY <2>1
  <2>4. x \in SR /\ IsSession(x) /\ rest \in Seq(SR)
    BY <2>3, <2>2, <1>4, <1>5 DEF b, c
  <2>5. rest # <<>> => <<Head(rest), Tail(rest)>> \in Stages(kind, p)
    BY <2>3, <2>2, <2>1
  <2>6. QED
    BY <2>2, <2>3, <2>4, <2>5, <1>8 DEF Named, SR, b, c
<1>9. CASE kind = "service"
  <2>1. x = Service /\ rest = <<>>
    BY <1>9 DEF Stages
  <2>2. QED
    BY <2>1, <1>4, <1>5, <1>9 DEF Named, SR
<1>10. QED
  BY <1>6, <1>7, <1>8, <1>9 DEF Kinds

\* A session at any of its commands, by its kind and profile and those of the next.
Placed(kind, p, s, rest) ==
  /\ s.commands = CommandsOf(s.what) /\ s.listens = (s.what \notin {"preflight", "status"})
  /\ kind = "run" =>
       /\ s.what \in {"preflight", "job", "postCheck"}
       /\ s.of = p \/ (s.of = Docker /\ p \in OnDocker)
       /\ rest = <<>> => s.what = "postCheck" /\ s.of = p
       /\ s.what = "preflight" => Head(rest).what = "job" /\ Head(rest).of = s.of
       /\ s.what = "job" => Head(rest).what = "postCheck" /\ Head(rest).of = s.of
       /\ s.what = "postCheck" /\ rest # <<>> =>
            Head(rest).what = "job" /\ Head(rest).of = p /\ s.of # p
  /\ kind = "repair" =>
       /\ s.what \in {"preflight", "status", "bootstrap"} /\ s.of = None
       /\ rest = <<>> => s.what = "preflight"
       /\ s.what = "preflight" /\ rest # <<>> =>
            Head(rest).what = "status" /\ Head(rest).of = None /\ Tail(rest) # <<>>
       /\ s.what = "status" =>
            Head(rest).what = "bootstrap" /\ Head(rest).of = None /\ Tail(rest) # <<>>
       /\ s.what = "bootstrap" =>
            Head(rest).what = "preflight" /\ Head(rest).of = None /\ Tail(rest) = <<>>
  /\ kind = "bootstrap" =>
       /\ s.what \in {"status", "bootstrap"} /\ s.of = None
       /\ rest = <<>> => s.what = "bootstrap"
       /\ s.what = "status" => Head(rest).what = "bootstrap" /\ Head(rest).of = None
       /\ s.what = "bootstrap" => rest = <<>>
  /\ kind = "service" => s.what = "service" /\ s.of = None /\ rest = <<>>

(* A session is made anew without changing what it is. *)
LEMMA FreshFields ==
  ASSUME NEW s \in SessionRecords
  PROVE  /\ Fresh(s) \in SessionRecords => Fresh(s).left = s.commands
         /\ Fresh(s).what = s.what /\ Fresh(s).of = s.of /\ Fresh(s).listens = s.listens
         /\ Fresh(s).commands = s.commands
BY DEF Fresh, SessionRecords

(* A session as it begins has all its commands before it; only a look does not listen. *)
LEMMA IsSessionFields ==
  ASSUME NEW s, IsSession(s)
  PROVE  /\ s.commands = CommandsOf(s.what) /\ s.left = s.commands
         /\ s.listens = (s.what \notin {"preflight", "status"})
BY DEF IsSession, Session

(* A session under way is placed among those of its operation: what follows it is known. *)
LEMMA StagePlaced ==
  ASSUME NEW kind \in Kinds, NEW p \in Profiles \cup {None}, kind = "run" <=> p # None,
         NEW s \in SessionRecords, NEW rest, <<Fresh(s), rest>> \in Stages(kind, p)
  PROVE  Placed(kind, p, s, rest)
<1> DEFINE x == Fresh(s)
<1>1. IsSession(x) /\ Named(kind, p, x, rest)
  BY StageOf
<1>2. x.what = s.what /\ x.of = s.of /\ x.listens = s.listens /\ x.commands = s.commands
  BY FreshFields
<1> HIDE DEF x
<1>3. s.commands = CommandsOf(s.what) /\ s.listens = (s.what \notin {"preflight", "status"})
  BY <1>1, <1>2, IsSessionFields
<1>4. CASE kind = "run"
  <2>1. PICK q \in {p, Docker} :
          /\ q # p => p \in OnDocker
          /\ \/ x = Preflight(q) /\ rest # <<>> /\ Head(rest) = Job(q)
             \/ x = Job(q) /\ rest # <<>> /\ Head(rest) = PostCheck(q)
             \/ x = PostCheck(q) /\ q = p /\ rest = <<>>
             \/ x = PostCheck(q) /\ q # p /\ rest # <<>> /\ Head(rest) = Job(p)
    BY <1>1, <1>4 DEF Named
  <2>2. /\ Preflight(q).what = "preflight" /\ Preflight(q).of = q
        /\ Job(q).what = "job" /\ Job(q).of = q /\ Job(p).what = "job" /\ Job(p).of = p
        /\ PostCheck(q).what = "postCheck" /\ PostCheck(q).of = q
    BY Fields
  <2>3. QED
    BY <2>1, <2>2, <1>2, <1>3, <1>4 DEF Placed
<1>5. CASE kind = "repair"
  <2>1. \/ x = Preflight(None) /\ rest # <<>> /\ Head(rest) = Status /\ Tail(rest) # <<>>
        \/ x = Status /\ rest # <<>> /\ Head(rest) = Bootstrap /\ Tail(rest) # <<>>
        \/ x = Bootstrap /\ rest # <<>> /\ Head(rest) = Preflight(None) /\ Tail(rest) = <<>>
        \/ x = Preflight(None) /\ rest = <<>>
    BY <1>1, <1>5 DEF Named
  <2>2. QED
    BY <2>1, <1>2, <1>3, <1>5, Fields DEF Placed
<1>6. CASE kind = "bootstrap"
  <2>1. \/ x = Status /\ rest # <<>> /\ Head(rest) = Bootstrap
        \/ x = Bootstrap /\ rest = <<>>
    BY <1>1, <1>6 DEF Named
  <2>2. QED
    BY <2>1, <1>2, <1>3, <1>6, Fields DEF Placed
<1>7. CASE kind = "service"
  <2>1. x = Service /\ rest = <<>>
    BY <1>1, <1>7 DEF Named
  <2>2. QED
    BY <2>1, <1>2, <1>3, <1>7, Fields DEF Placed
<1>8. QED
  BY <1>4, <1>5, <1>6, <1>7 DEF Kinds

(* The session after it is as it begins. *)
LEMMA NextSession ==
  ASSUME NEW kind \in Kinds, NEW p \in Profiles \cup {None}, kind = "run" <=> p # None,
         NEW x, NEW rest, <<x, rest>> \in Stages(kind, p)
  PROVE  x \in SessionRecords /\ Fresh(x) = x /\ x.left = x.commands /\ x.left \in LeftOf(x.what)
<1>1. x \in SessionRecords /\ IsSession(x)
  BY StageOf
<1>2. x.left = x.commands /\ x.commands = CommandsOf(x.what)
  BY <1>1, IsSessionFields
<1>3. Fresh(x) = x
  BY <1>1, <1>2 DEF Fresh, SessionRecords
<1>4. QED
  BY <1>1, <1>2, <1>3 DEF LeftOf

(* Docker is put first where a profile on it begins with its preflight. *)
LEMMA DockerFirst ==
  ASSUME NEW kind \in Kinds, NEW p \in Profiles \cup {None}, kind = "run" <=> p # None,
         NEW x, NEW rest, <<x, rest>> \in Stages(kind, p),
         x.what = "preflight", x.of \in OnDocker
  PROVE  LET todo == <<Preflight(Docker), Job(Docker), PostCheck(Docker)>> \o rest
         IN  /\ kind = "run" /\ x.of = p /\ todo \in Seq(SessionRecords) /\ todo # <<>>
             /\ <<Head(todo), Tail(todo)>> \in Stages(kind, p)
             /\ Head(todo).what = "preflight" /\ Head(todo).of = Docker
<1> USE DockerStandsAlone
<1>1. x \in SessionRecords /\ Fresh(x) = x
  BY NextSession
<1>2. Placed(kind, p, x, rest)
  BY <1>1, StagePlaced
<1>3. kind = "run" /\ x.of = p
  BY <1>2 DEF Placed, Kinds
<1>4. p \in OnDocker /\ p # Docker
  BY <1>3
<1>5. rest = <<Job(p), PostCheck(p)>>
  <2>1. <<x, rest>> \in Plain(p) \cup OverDocker(p)
    BY <1>3, <1>4 DEF Stages
  <2>2. /\ x # Preflight(Docker) /\ x # Job(Docker) /\ x # PostCheck(Docker)
        /\ x # Job(p) /\ x # PostCheck(p)
    BY <1>3, <1>4, Fields
  <2>3. QED
    BY <2>1, <2>2 DEF Plain, OverDocker
<1> DEFINE a == Preflight(Docker)  b == Job(Docker)  c == PostCheck(Docker)
           d == Job(p)  e == PostCheck(p)
           todo == <<a, b, c>> \o <<d, e>>
<1>6. /\ a \in SessionRecords /\ b \in SessionRecords /\ c \in SessionRecords
      /\ d \in SessionRecords /\ e \in SessionRecords
  BY Constructors
<1>7. todo \in Seq(SessionRecords) /\ Head(todo) = a /\ Tail(todo) = <<b, c, d, e>>
  <2> HIDE DEF a, b, c, d, e
  <2>1. QED
    BY <1>6, JoinedPairs
<1>8. todo # <<>>
  BY <1>7
<1>9. <<Head(todo), Tail(todo)>> \in Stages(kind, p)
  <2>1. <<a, <<b, c, d, e>>>> \in OverDocker(p)
    BY DEF OverDocker
  <2>2. QED
    BY <2>1, <1>7, <1>3, <1>4 DEF Stages
<1>10. Head(todo).what = "preflight" /\ Head(todo).of = Docker
  BY <1>7, Fields
<1>11. QED
  BY <1>3, <1>5, <1>7, <1>8, <1>9, <1>10

(* The commands left of a session, one by one. *)
LEMMA JobLeft ==
  ASSUME NEW l \in LeftOf("job")
  PROVE  /\ l # <<>> /\ 1 \in DOMAIN l /\ Head(l) = l[1]
         /\ \A i \in DOMAIN l : l[i] = l[1] => i = 1
         /\ \A i \in DOMAIN Tail(l) : i + 1 \in DOMAIN l /\ Tail(l)[i] = l[i + 1] /\ i + 1 # 1
         /\ Tail(l) # <<>> => /\ Tail(l) \in LeftOf("job") /\ Tail(l) # CommandsOf("job")
                             /\ Tail(l) # <<"rm">>
         /\ Head(l) \in {"mkdir", "upload", "syntax", "play", "rm"}
         /\ Head(l) = "mkdir" <=> l = CommandsOf("job")
         /\ Head(l) = "mkdir" => Tail(l) # <<>>
         /\ Head(l) = "rm" <=> l = <<"rm">>
         /\ Tail(l) = <<>> => Head(l) \in {"play", "rm"}
<1> DEFINE t == Tail(l)  whole == CommandsOf("job")
<1>1. /\ LeftOf("job") = {whole, <<"upload", "syntax", "play">>, <<"syntax", "play">>,
                          <<"play">>, <<"rm">>}
      /\ whole = <<"mkdir", "upload", "syntax", "play">>
  BY DEF LeftOf, CommandsOf
<1>2. \/ l = <<"mkdir", "upload", "syntax", "play">> /\ t = <<"upload", "syntax", "play">>
      \/ l = <<"upload", "syntax", "play">> /\ t = <<"syntax", "play">>
      \/ l = <<"syntax", "play">> /\ t = <<"play">>
      \/ l = <<"play">> /\ t = <<>>
      \/ l = <<"rm">> /\ t = <<>>
  <2>1. CASE l = <<"mkdir", "upload", "syntax", "play">>
    BY <2>1
  <2>2. CASE l = <<"upload", "syntax", "play">>
    BY <2>2
  <2>3. CASE l = <<"syntax", "play">>
    BY <2>3
  <2>4. CASE l = <<"play">>
    BY <2>4
  <2>5. CASE l = <<"rm">>
    BY <2>5
  <2>6. QED
    BY <1>1, <2>1, <2>2, <2>3, <2>4, <2>5
<1>3. Head(l) = l[1]
  BY <1>2
<1> HIDE DEF t, whole
<1>4. DOMAIN whole = 1 .. 4 /\ whole[1] = "mkdir"
  BY <1>1
<1>5. \/ /\ l = whole /\ DOMAIN l = 1 .. 4
         /\ l[1] = "mkdir" /\ l[2] = "upload" /\ l[3] = "syntax" /\ l[4] = "play"
      \/ /\ l = <<"upload", "syntax", "play">> /\ DOMAIN l = 1 .. 3
         /\ l[1] = "upload" /\ l[2] = "syntax" /\ l[3] = "play"
      \/ l = <<"syntax", "play">> /\ DOMAIN l = 1 .. 2 /\ l[1] = "syntax" /\ l[2] = "play"
      \/ l = <<"play">> /\ DOMAIN l = 1 .. 1 /\ l[1] = "play"
      \/ l = <<"rm">> /\ DOMAIN l = 1 .. 1 /\ l[1] = "rm"
  BY <1>2, <1>1
<1>6. \/ /\ t = <<"upload", "syntax", "play">> /\ DOMAIN t = 1 .. 3
         /\ t[1] = "upload" /\ t[2] = "syntax" /\ t[3] = "play"
      \/ t = <<"syntax", "play">> /\ DOMAIN t = 1 .. 2 /\ t[1] = "syntax" /\ t[2] = "play"
      \/ t = <<"play">> /\ DOMAIN t = 1 .. 1 /\ t[1] = "play"
      \/ t = <<>> /\ DOMAIN t = {}
  BY <1>2
<1>7. /\ l[1] = "mkdir" => t[1] = "upload" /\ t[2] = "syntax" /\ t[3] = "play" /\ DOMAIN t = 1 .. 3
      /\ l[1] = "upload" => t[1] = "syntax" /\ t[2] = "play" /\ DOMAIN t = 1 .. 2
      /\ l[1] = "syntax" => t[1] = "play" /\ DOMAIN t = 1 .. 1
      /\ l[1] = "play" \/ l[1] = "rm" => DOMAIN t = {} /\ t = <<>>
  BY <1>2
<1>8. l # <<>> /\ 1 \in DOMAIN l
  BY <1>2
<1>9. \A i \in DOMAIN l : l[i] = l[1] => i = 1
  BY <1>5
<1>10. \A i \in DOMAIN t : i + 1 \in DOMAIN l /\ t[i] = l[i + 1] /\ i + 1 # 1
  BY <1>5, <1>7
<1>11. t # <<>> => t \in LeftOf("job") /\ t # whole /\ t # <<"rm">>
  <2>1. t # <<>> => t \in LeftOf("job") /\ t # whole
    BY <1>1, <1>4, <1>6
  <2>2. t # <<>> => t[1] \in {"upload", "syntax", "play"}
    BY <1>6
  <2>3. <<"rm">>[1] = "rm"
    OBVIOUS
  <2>4. QED
    BY <2>1, <2>2, <2>3
<1>12. l[1] \in {"mkdir", "upload", "syntax", "play", "rm"}
  BY <1>5
<1>13. l[1] = "mkdir" <=> l = whole
  BY <1>4, <1>5
<1>14. l[1] = "rm" <=> l = <<"rm">>
  <2>1. <<"rm">>[1] = "rm"
    OBVIOUS
  <2>2. QED
    BY <2>1, <1>5
<1>15. t = <<>> => l[1] \in {"play", "rm"}
  <2>1. t = <<>> => DOMAIN t = {}
    OBVIOUS
  <2>2. QED
    BY <2>1, <1>7, <1>12
<1>16. l[1] = "mkdir" => t # <<>>
  BY <1>7
<1>17. QED
  BY <1>3, <1>8, <1>9, <1>10, <1>11, <1>12, <1>13, <1>14, <1>15, <1>16 DEF t, whole

(* Any session but a job has one command, and no directory to remove. *)
LEMMA OtherLeft ==
  ASSUME NEW w \in SessionKinds \ {"job"}, NEW l \in LeftOf(w)
  PROVE  /\ l # <<>> /\ 1 \in DOMAIN l /\ Head(l) = l[1]
         /\ \A i \in DOMAIN l : l[i] = l[1] => i = 1
         /\ Tail(l) = <<>> /\ l = CommandsOf(w) /\ l # <<"rm">>
         /\ Head(l) = IF w \in {"preflight", "status"} THEN "look"
                      ELSE IF w = "bootstrap" THEN "bootstrap"
                      ELSE IF w = "postCheck" THEN "check" ELSE "restart"
<1>1. l = CommandsOf(w)
  BY DEF LeftOf
<1>2. l = <<IF w \in {"preflight", "status"} THEN "look"
             ELSE IF w = "bootstrap" THEN "bootstrap"
             ELSE IF w = "postCheck" THEN "check" ELSE "restart">>
  <2>1. CASE w \in {"preflight", "status"}
    BY <1>1, <2>1 DEF CommandsOf
  <2>2. CASE w = "bootstrap"
    BY <1>1, <2>2 DEF CommandsOf
  <2>3. CASE w = "postCheck"
    BY <1>1, <2>3 DEF CommandsOf
  <2>4. CASE w = "service"
    BY <1>1, <2>4 DEF CommandsOf
  <2>5. QED
    BY <2>1, <2>2, <2>3, <2>4 DEF SessionKinds
<1>3. QED
  BY <1>1, <1>2

(* What a command sets in the session under way. *)
LEMMA LeftIsSet ==
  ASSUME NEW op \in OpTypes, op.todo # <<>>, NEW w \in SessionKinds, NEW l \in LeftOf(w)
  PROVE  LET next == [op EXCEPT !.todo[1].left = l]
         IN  /\ next = [op EXCEPT !.todo = next.todo]
             /\ next \in OpTypes /\ next.todo # <<>>
             /\ Head(next.todo) = [Head(op.todo) EXCEPT !.left = l]
             /\ Head(next.todo) \in SessionRecords
             /\ Tail(next.todo) = Tail(op.todo)
<1> DEFINE s == op.todo[1]  s2 == [s EXCEPT !.left = l]
           t == [op.todo EXCEPT ![1] = s2]
           next == [op EXCEPT !.todo[1].left = l]
<1>1. op.todo \in Seq(SessionRecords) /\ Len(op.todo) \in Nat /\ Len(op.todo) > 0
  BY DEF OpTypes
<1>2. s \in SessionRecords /\ s = Head(op.todo) /\ 1 \in 1 .. Len(op.todo)
  BY <1>1
<1>3. l \in UNION {LeftOf(x) : x \in SessionKinds}
  OBVIOUS
<1>4. s2 \in SessionRecords
  BY <1>2, <1>3 DEF SessionRecords
<1>5. next = [op EXCEPT !.todo = t]
  OBVIOUS
<1> HIDE DEF s2, next
<1>6. /\ t \in Seq(SessionRecords) /\ Len(t) = Len(op.todo) /\ t[1] = s2
      /\ \A i \in 1 .. Len(op.todo) : i # 1 => t[i] = op.todo[i]
  BY <1>1, <1>2, <1>4
<1> HIDE DEF t
<1>7. Head(t) = s2 /\ t # <<>>
  BY <1>1, <1>6
<1>8. Tail(t) = Tail(op.todo)
  <2>1. /\ Tail(t) \in Seq(SessionRecords) /\ Len(Tail(t)) = Len(t) - 1
        /\ \A i \in 1 .. Len(Tail(t)) : Tail(t)[i] = t[i + 1]
    BY <1>6, <1>7, HeadTailProperties
  <2>2. /\ Tail(op.todo) \in Seq(SessionRecords) /\ Len(Tail(op.todo)) = Len(op.todo) - 1
        /\ \A i \in 1 .. Len(Tail(op.todo)) : Tail(op.todo)[i] = op.todo[i + 1]
    BY <1>1, HeadTailProperties
  <2>3. \A i \in 1 .. Len(Tail(t)) : Tail(t)[i] = Tail(op.todo)[i]
    BY <2>1, <2>2, <1>6, <1>1
  <2>4. QED
    BY <2>1, <2>2, <2>3, <1>6, SeqEqual
<1>9. next.todo = t /\ next \in OpTypes /\ next = [op EXCEPT !.todo = t]
  BY <1>5, <1>6 DEF OpTypes
<1>10. QED
  BY <1>2, <1>4, <1>7, <1>8, <1>9 DEF s2, next

(* What is known of an operation that is under way. *)
LEMMA UnderWay ==
  ASSUME RemoteTypes, NEW id \in Operations, Live(id), OnItsWay(id)
  PROVE  /\ ops[id] \in OpTypes /\ ops[id].kind \in Kinds /\ ops[id].of \in Profiles \cup {None}
         /\ ops[id].kind = "run" <=> ops[id].of # None
         /\ ops[id].todo \in Seq(SessionRecords) /\ ops[id].todo # <<>>
         /\ Now(id) \in SessionRecords /\ Now(id).what \in SessionKinds
         /\ Now(id).of \in Profiles \cup {None}
         /\ Tail(ops[id].todo) \in Seq(SessionRecords)
         /\ Now(id).left \in LeftOf(Now(id).what)
         /\ <<Fresh(Now(id)), Tail(ops[id].todo)>> \in Stages(ops[id].kind, ops[id].of)
         /\ Placed(ops[id].kind, ops[id].of, Now(id), Tail(ops[id].todo))
<1>1. ops[id] \in OpTypes
  BY DEF RemoteTypes
<1>2. /\ ops[id].kind \in Kinds /\ (ops[id].kind = "run" <=> ops[id].of # None)
      /\ ops[id].todo # <<>> /\ Now(id).left \in LeftOf(Now(id).what)
      /\ <<Fresh(Now(id)), Tail(ops[id].todo)>> \in Stages(ops[id].kind, ops[id].of)
  BY DEF OnItsWay, Stage
<1>3. ops[id].of \in Profiles \cup {None} /\ ops[id].todo \in Seq(SessionRecords)
  BY <1>1 DEF OpTypes
<1>4. Now(id) \in SessionRecords /\ Tail(ops[id].todo) \in Seq(SessionRecords)
  BY <1>2, <1>3 DEF Now
<1>5. Now(id).what \in SessionKinds /\ Now(id).of \in Profiles \cup {None}
  BY <1>4 DEF SessionRecords
<1>6. Placed(ops[id].kind, ops[id].of, Now(id), Tail(ops[id].todo))
  <2> DEFINE k == ops[id].kind  f == ops[id].of  s == Now(id)  rest == Tail(ops[id].todo)
  <2>1. /\ k \in Kinds /\ f \in Profiles \cup {None} /\ (k = "run" <=> f # None)
        /\ s \in SessionRecords /\ <<Fresh(s), rest>> \in Stages(k, f)
    BY <1>2, <1>3, <1>4
  <2> HIDE DEF k, f, s, rest
  <2>2. Placed(k, f, s, rest)
    BY <2>1, StagePlaced
  <2>3. QED
    BY <2>2 DEF k, f, s, rest
<1>7. QED
  BY <1>1, <1>2, <1>3, <1>4, <1>5, <1>6

(* The sessions that follow the one under way. *)
LEMMA FollowingOf ==
  ASSUME RemoteTypes, NEW id \in Operations, Live(id), OnItsWay(id)
  PROVE  LET next == Following(id)
         IN  /\ next \in Seq(SessionRecords)
             /\ next = <<>> => Tail(ops[id].todo) = <<>>
             /\ next # <<>> => <<Head(next), Tail(next)>> \in Stages(ops[id].kind, ops[id].of)
             /\ \/ next = Tail(ops[id].todo)
                \/ /\ Now(id).what = "preflight" /\ Now(id).of \in OnDocker
                   /\ ops[id].kind = "run" /\ Now(id).of = ops[id].of
                   /\ Head(next).what = "preflight" /\ Head(next).of = Docker
<1> DEFINE k == ops[id].kind  f == ops[id].of  s == Now(id)  rest == Tail(ops[id].todo)
           x == Fresh(s)
<1>1. /\ k \in Kinds /\ f \in Profiles \cup {None} /\ (k = "run" <=> f # None)
      /\ s \in SessionRecords /\ <<x, rest>> \in Stages(k, f) /\ rest \in Seq(SessionRecords)
  BY UnderWay
<1>2. x.what = s.what /\ x.of = s.of
  BY <1>1, FreshFields
<1>3. Following(id) = IF s.what = "preflight" /\ s.of \in OnDocker /\ Docker \notin host.services
                      THEN <<Preflight(Docker), Job(Docker), PostCheck(Docker)>> \o rest ELSE rest
  BY DEF Following
<1> HIDE DEF k, f, s, rest, x
<1>4. rest # <<>> => <<Head(rest), Tail(rest)>> \in Stages(k, f)
  BY <1>1, StageOf
<1>5. CASE s.what = "preflight" /\ s.of \in OnDocker /\ Docker \notin host.services
  <2> DEFINE todo == <<Preflight(Docker), Job(Docker), PostCheck(Docker)>> \o rest
  <2>1. /\ k = "run" /\ x.of = f /\ todo \in Seq(SessionRecords) /\ todo # <<>>
        /\ <<Head(todo), Tail(todo)>> \in Stages(k, f)
        /\ Head(todo).what = "preflight" /\ Head(todo).of = Docker
    BY <1>1, <1>2, <1>5, DockerFirst
  <2>2. Following(id) = todo
    BY <1>3, <1>5
  <2> HIDE DEF todo
  <2>3. QED
    BY <2>1, <2>2, <1>2, <1>5 DEF k, f, s, rest
<1>6. CASE ~(s.what = "preflight" /\ s.of \in OnDocker /\ Docker \notin host.services)
  <2>1. Following(id) = rest
    BY <1>3, <1>6
  <2>2. QED
    BY <2>1, <1>1, <1>4 DEF k, f, s, rest
<1>7. QED
  BY <1>5, <1>6

(* What an operation makes of the end of its command. *)
LEMMA HeardCases ==
  ASSUME RemoteTypes, NEW id \in Operations, Live(id), OnItsWay(id),
         NEW outcome \in {"success", "failure", "late"}
  PROVE  LET command == Command(id)  what == Now(id).what  next == Heard(id, outcome)
         IN  \/ \E cut \in BOOLEAN :
                  /\ next = Answered(ops[id], "failed", cut)
                  /\ outcome = "late" => cut
                  /\ what = "job" => command \in {"rm", "mkdir"}
                  /\ command = "rm" /\ outcome # "success" => cut
                  /\ command = "mkdir" => outcome # "success"
             \/ \E failing \in BOOLEAN :
                  /\ next = Cleaning(ops[id], failing)
                  /\ what = "job" /\ command \notin {"mkdir", "rm"}
                  /\ failing \/ (outcome = "success" /\ command = "play")
             \/ /\ next = [ops[id] EXCEPT !.todo[1].left = Tail(Now(id).left)]
                /\ outcome = "success" /\ what = "job" /\ command # "rm"
                /\ Tail(Now(id).left) # <<>>
             \/ \E cut \in BOOLEAN :
                  /\ next = Done(ops[id], Following(id), cut)
                  /\ \/ /\ what = "job" /\ command = "rm" /\ ~ops[id].failing
                        /\ cut = (outcome # "success")
                     \/ /\ what # "job" /\ cut = FALSE
                        /\ outcome = "success" \/ (what = "status" /\ outcome = "failure")
<1> DEFINE op == ops[id]  s == Now(id)  command == Head(s.left)  left == Tail(s.left)
           failed == outcome = "late" \/ (outcome = "failure" /\ s.what # "status")
           missed == outcome # "success"
           next == Heard(id, outcome)
<1>1. s.what \in SessionKinds /\ s.left \in LeftOf(s.what) /\ op.failing \in BOOLEAN
  BY UnderWay DEF OpTypes
<1>2. s.what # "job" => command # "rm" /\ command # "mkdir" /\ left = <<>>
  BY <1>1, OtherLeft
<1>3. s.what = "job" => /\ left = <<>> => command \in {"play", "rm"}
                        /\ command = "mkdir" => left # <<>>
  BY <1>1, JobLeft
<1>a. command = "rm" => s.what = "job" /\ left = <<>>
  <2>1. s.what = "job" => (command = "rm" => s.left = <<"rm">>)
    BY <1>1, JobLeft
  <2>2. s.left = <<"rm">> => left = <<>>
    OBVIOUS
  <2>3. QED
    BY <1>2, <2>1, <2>2
<1>4. Command(id) = command
  BY DEF Command
<1>5. next = CASE command = "rm" /\ op.failing -> Answered(op, "failed", missed)
       [] command = "rm" /\ ~op.failing -> Done(op, Following(id), missed)
       [] command # "rm" /\ s.what = "job" /\ command # "mkdir" /\ (failed \/ left = <<>>) ->
            Cleaning(op, failed)
       [] failed /\ (s.what # "job" \/ command = "mkdir") ->
            Answered(op, "failed", outcome = "late")
       [] ~failed /\ left # <<>> -> [op EXCEPT !.todo[1].left = left]
       [] OTHER -> IF Refused(id) THEN Answered(op, "failed", FALSE)
                   ELSE Done(op, Following(id), FALSE)
  BY DEF Heard
<1>6. Refused(id) => s.what = "preflight"
  BY DEF Refused
<1> HIDE DEF op, s, command, left, next, missed
<1>7. CASE command = "rm" /\ op.failing
  <2>1. next = Answered(op, "failed", missed)
    BY <1>5, <1>7, <1>a
  <2>2. QED
    BY <2>1, <1>7, <1>2, <1>4 DEF op, s, command, next, missed
<1>8. CASE command = "rm" /\ ~op.failing
  <2>1. next = Done(op, Following(id), missed)
    BY <1>5, <1>8, <1>a
  <2>2. QED
    BY <2>1, <1>8, <1>2, <1>4 DEF op, s, command, next, missed
<1>9. CASE command # "rm" /\ s.what = "job" /\ command # "mkdir" /\ (failed \/ left = <<>>)
  <2>1. next = Cleaning(op, failed)
    BY <1>5, <1>9
  <2>2. failed \/ (outcome = "success" /\ command = "play")
    BY <1>3, <1>9
  <2>3. failed \in BOOLEAN
    OBVIOUS
  <2> HIDE DEF failed
  <2>4. QED
    BY <2>1, <2>2, <2>3, <1>9, <1>4 DEF op, s, command, next
<1>10. CASE command # "rm" /\ failed /\ (s.what # "job" \/ command = "mkdir")
  <2>1. next = Answered(op, "failed", outcome = "late")
    BY <1>5, <1>10
  <2>2. QED
    BY <2>1, <1>10, <1>2, <1>4 DEF op, s, command, next
<1>11. CASE command # "rm" /\ ~failed /\ left # <<>>
  <2>1. next = [op EXCEPT !.todo[1].left = left]
    BY <1>5, <1>11
  <2>2. QED
    BY <2>1, <1>11, <1>2, <1>4 DEF op, s, command, next, left
<1>12. CASE command # "rm" /\ ~failed /\ left = <<>> /\ s.what # "job"
  <2>1. next = IF Refused(id) THEN Answered(op, "failed", FALSE) ELSE Done(op, Following(id), FALSE)
    BY <1>5, <1>12
  <2>2. QED
    BY <2>1, <1>6, <1>12, <1>2, <1>4 DEF op, s, command, next
<1>13. QED
  BY <1>7, <1>8, <1>9, <1>10, <1>11, <1>12, <1>3

(* What an operation is left with when it answers. *)
LEMMA AnsweredFields ==
  ASSUME NEW op \in OpTypes, op.kind # None, NEW result \in {"ok", "failed", "cancelled"},
         NEW cut \in BOOLEAN
  PROVE  LET next == Answered(op, result, cut)
         IN  /\ next \in OpTypes /\ next.kind = op.kind /\ next.of = op.of
             /\ next.result = result /\ next.result # None /\ next.cut = (op.cut \/ cut)
<1> DEFINE torn == op.cut \/ cut
<1>1. /\ torn \in BOOLEAN /\ op.kind \in Kinds \cup {None} /\ op.of \in Profiles \cup {None}
      /\ <<>> \in Seq(SessionRecords)
  BY DEF OpTypes
<1>2. Answered(op, result, cut) =
        [Absent EXCEPT !.kind = op.kind, !.of = op.of, !.result = result, !.cut = torn]
  BY DEF Answered
<1> HIDE DEF torn
<1>3. Answered(op, result, cut) =
        [kind |-> op.kind, of |-> op.of, todo |-> <<>>, link |-> "none", tries |-> 0,
         failing |-> FALSE, aborted |-> FALSE, cut |-> torn, result |-> result]
  BY <1>2 DEF Absent
<1>4. QED
  BY <1>1, <1>3 DEF OpTypes, None, torn

(* What is known of an operation stays so while others move. *)
LEMMA OperationKept ==
  ASSUME NEW id \in Operations, OperationOK(id), ops'[id] = ops[id],
         \A b : b.op = id => (b \in begun' <=> b \in begun),
         \A p : p.op = id /\ p.heard /\ p \in processes => p \in processes',
         succeeded \subseteq succeeded', Complete(host) => Complete(host)'
  PROVE  OperationOK(id)'
<1>1. Live(id)' <=> Live(id)
  BY DEF Live
<1>2. Now(id)' = Now(id)
  BY DEF Now
<1>3. ops[id].kind = None => ops[id] = Absent /\ (\A b \in begun : b.op # id)
  BY DEF OperationOK
<1>4. (\A b \in begun : b.op # id) => \A b \in begun' : b.op # id
  OBVIOUS
<1>5. OnItsWay(id) => OnItsWay(id)'
  BY <1>2 DEF OnItsWay, Stage
<1>6. \A c, f : Began(id, c, f)' <=> Began(id, c, f)
  BY DEF Began
<1>7. \A f : Untouched(id, f) => Untouched(id, f)'
  BY DEF Untouched
<1>8. Pending(id) # {} => Pending(id)' # {}
  BY DEF Pending
<1>9. InStock(id) => InStock(id)'
  BY <1>2, <1>6, <1>7, <1>8 DEF InStock
<1>10. Achieved(id) => Achieved(id)'
  BY <1>2 DEF Achieved
<1>11. QED
  BY <1>1, <1>3, <1>4, <1>5, <1>9, <1>10 DEF OperationOK

(* An operation that has answered without success. *)
LEMMA AnsweredOK ==
  ASSUME NEW id \in Operations, ops'[id].kind # None, ops'[id].result \in {"failed", "cancelled"}
  PROVE  OperationOK(id)'
BY DEF OperationOK, Live, None

(* An operation that ends early keeps the invariant. *)
LEMMA OverKeeps ==
  ASSUME RemoteIInv, NEW id \in Operations, Live(id),
         NEW result \in {"failed", "cancelled"}, NEW cut \in BOOLEAN,
         cut \/ ops[id].link # "ready", Over(id, result, cut),
         UNCHANGED <<host, jobs, begun, succeeded>>
  PROVE  RemoteIInv'
<1> DEFINE next == Answered(ops[id], result, cut)
<1>1. /\ ops[id] \in OpTypes /\ ops \in [Operations -> OpTypes]
      /\ ops[id].kind # None /\ ops[id].result = None
  BY DEF RemoteIInv, RemoteTypes, Live
<1>2. /\ next \in OpTypes /\ next.kind = ops[id].kind /\ next.of = ops[id].of
      /\ next.result = result /\ next.result # None /\ next.cut = (ops[id].cut \/ cut)
  BY <1>1, AnsweredFields
<1>3. /\ ops' = [ops EXCEPT ![id] = next]
      /\ processes' = {IF p.op = id THEN [p EXCEPT !.heard = FALSE] ELSE p : p \in processes}
  BY DEF Over
<1> HIDE DEF next
<1>4. /\ ops' \in [Operations -> OpTypes] /\ ops'[id] = next
      /\ \A other \in Operations \ {id} : ops'[other] = ops[other]
  BY <1>1, <1>2, <1>3
<1>5. processes \subseteq ProcessRecords
  BY DEF RemoteIInv, RemoteTypes
<1>a. /\ \A p \in processes : p.heard =>
           /\ Live(p.op) /\ ops[p.op].link = "ready"
           /\ p.command = Command(p.op) /\ p.of = Now(p.op).of
      /\ \A p, q \in processes : p.heard /\ q.heard /\ p.op = q.op => p = q
      /\ \A p \in processes : ~p.heard /\ p.command = "mkdir" =>
           ops[p.op].cut /\ ops[p.op].result # None
      /\ \A p \in processes : p.command = "play" => p.of \in Profiles
      /\ \A p \in processes : p.op \in Operations
  BY <1>5 DEF RemoteIInv, ProcessesOK, ProcessRecords
<1>6. \A q \in processes' :
        /\ q \in ProcessRecords
        /\ q.op # id => q \in processes
        /\ q.op = id => /\ ~q.heard
                        /\ \E p \in processes : p.op = id /\ p.command = q.command /\ p.of = q.of
  <2> TAKE q \in processes'
  <2>1. PICK p \in processes : q = IF p.op = id THEN [p EXCEPT !.heard = FALSE] ELSE p
    BY <1>3
  <2>2. p \in ProcessRecords
    BY <1>5
  <2>3. CASE p.op = id
    <3>1. q = [p EXCEPT !.heard = FALSE]
      BY <2>1, <2>3
    <3>2. q \in ProcessRecords /\ q.op = id /\ ~q.heard /\ q.command = p.command /\ q.of = p.of
      BY <3>1, <2>2, <2>3 DEF ProcessRecords
    <3>3. QED
      BY <3>2, <2>3
  <2>4. CASE p.op # id
    BY <2>1, <2>2, <2>4
  <2>5. QED
    BY <2>3, <2>4
<1>7. RemoteTypes'
  <2>1. host' = host /\ jobs' = jobs /\ begun' = begun
    OBVIOUS
  <2>2. processes' \subseteq ProcessRecords
    BY <1>6
  <2>3. RemoteTypes
    BY DEF RemoteIInv
  <2>4. QED
    BY <1>4, <2>1, <2>2, <2>3 DEF RemoteTypes
<1>8. \A other \in Operations : OperationOK(other)'
  <2> TAKE other \in Operations
  <2>1. CASE other = id
    BY <2>1, <1>1, <1>2, <1>4, AnsweredOK
  <2>2. CASE other # id
    <3>1. \A p : p.op = other /\ p.heard /\ p \in processes => p \in processes'
      BY <1>3, <2>2
    <3>2. OperationOK(other)
      BY DEF RemoteIInv
    <3>3. QED
      BY <3>1, <3>2, <2>2, <1>4, OperationKept DEF Complete
  <2>3. QED
    BY <2>1, <2>2
<1>9. ProcessesOK'
  <2>1. \A p \in processes' : p.heard =>
          /\ Live(p.op)' /\ ops'[p.op].link = "ready"
          /\ p.command = Command(p.op)' /\ p.of = Now(p.op)'.of
    <3> TAKE p \in processes'
    <3> HAVE p.heard
    <3>1. p.op # id /\ p \in processes /\ p.op \in Operations
      BY <1>6, <1>a
    <3>2. /\ Live(p.op) /\ ops[p.op].link = "ready"
          /\ p.command = Command(p.op) /\ p.of = Now(p.op).of
      BY <3>1, <1>a
    <3>3. QED
      BY <3>1, <3>2, <1>4 DEF Live, Command, Now
  <2>2. \A p, q \in processes' : p.heard /\ q.heard /\ p.op = q.op => p = q
    BY <1>6, <1>a
  <2>3. \A p \in processes' : ~p.heard /\ p.command = "mkdir" =>
          ops'[p.op].cut /\ ops'[p.op].result # None
    <3> TAKE p \in processes'
    <3> HAVE ~p.heard /\ p.command = "mkdir"
    <3>1. CASE p.op = id
      <4>1. PICK q \in processes : q.op = id /\ q.command = "mkdir"
        BY <1>6, <3>1
      <4>2. q.heard
        BY <4>1, <1>1, <1>a
      <4>3. cut
        BY <4>1, <4>2, <1>a
      <4>4. QED
        BY <4>3, <3>1, <1>2, <1>4
    <3>2. CASE p.op # id
      <4>1. p \in processes /\ p.op \in Operations
        BY <3>2, <1>6, <1>a
      <4>2. ops[p.op].cut /\ ops[p.op].result # None
        BY <4>1, <1>a
      <4>3. QED
        BY <4>1, <4>2, <3>2, <1>4
    <3>3. QED
      BY <3>1, <3>2
  <2>4. \A p \in processes' : p.command = "play" => p.of \in Profiles
    <3> TAKE p \in processes'
    <3>1. PICK q \in processes : q.command = p.command /\ q.of = p.of
      BY <1>6, <1>a
    <3>2. QED
      BY <3>1, <1>a
  <2>5. QED
    BY <2>1, <2>2, <2>3, <2>4 DEF ProcessesOK
<1>10. JobsOK'
  <2> SUFFICES ASSUME NEW job \in jobs
               PROVE  \/ ops'[job[1]].cut
                      \/ /\ Live(job[1])' /\ Now(job[1])'.what = "job" /\ Now(job[1])'.of = job[2]
                         /\ Now(job[1])'.left # Now(job[1])'.commands
    BY DEF JobsOK
  <2>1. \/ ops[job[1]].cut
        \/ /\ Live(job[1]) /\ Now(job[1]).what = "job" /\ Now(job[1]).of = job[2]
           /\ Now(job[1]).left # Now(job[1]).commands
    BY DEF RemoteIInv, JobsOK
  <2>2. job[1] \in Operations
    BY DEF RemoteIInv, RemoteTypes
  <2>3. CASE job[1] = id
    <3>1. cut \/ ops[id].cut
      BY <2>1, <2>3 DEF RemoteIInv, OperationOK, OnItsWay
    <3>2. QED
      BY <3>1, <2>3, <1>2, <1>4
  <2>4. CASE job[1] # id
    BY <2>1, <2>2, <2>4, <1>4 DEF Live, Now
  <2>5. QED
    BY <2>3, <2>4
<1>11. QED
  BY <1>7, <1>8, <1>9, <1>10 DEF RemoteIInv

(* An operation whose connection moves, or that is told to stop, keeps the invariant. *)
LEMMA MovesKeep ==
  ASSUME RemoteIInv, NEW id \in Operations, Live(id), NEW next \in OpTypes,
         ops' = [ops EXCEPT ![id] = next],
         /\ next.kind = ops[id].kind /\ next.of = ops[id].of /\ next.todo = ops[id].todo
         /\ next.failing = ops[id].failing /\ next.cut = ops[id].cut
         /\ next.result = ops[id].result,
         next.link = "ready" \/ ops[id].link # "ready",
         next.link # "none" /\ Now(id).listens => ~next.aborted,
         UNCHANGED <<host, jobs, processes, begun, succeeded>>
  PROVE  RemoteIInv'
<1>1. /\ ops[id] \in OpTypes /\ ops \in [Operations -> OpTypes]
      /\ ops[id].kind # None /\ ops[id].result = None
  BY DEF RemoteIInv, RemoteTypes, Live
<1>2. /\ ops' \in [Operations -> OpTypes] /\ ops'[id] = next
      /\ \A other \in Operations \ {id} : ops'[other] = ops[other]
  BY <1>1
<1>3. /\ host' = host /\ jobs' = jobs /\ processes' = processes
      /\ begun' = begun /\ succeeded' = succeeded
  OBVIOUS
<1>4. \A other \in Operations : (Live(other)' <=> Live(other)) /\ Now(other)' = Now(other)
  BY <1>2 DEF Live, Now
<1>5. RemoteTypes'
  BY <1>2, <1>3 DEF RemoteIInv, RemoteTypes
<1>6. OperationOK(id) /\ OnItsWay(id) /\ InStock(id) /\ Achieved(id)
  BY <1>1 DEF RemoteIInv, OperationOK
<1>7. OperationOK(id)'
  <2>1. Stage(id)' = Stage(id)
    BY <1>2, <1>4 DEF Stage
  <2>2. OnItsWay(id)'
    BY <1>2, <1>4, <1>6, <2>1 DEF OnItsWay
  <2>3. Pending(id)' = Pending(id)
    BY <1>3 DEF Pending
  <2>4. \A c, f : Began(id, c, f)' <=> Began(id, c, f)
    BY <1>3 DEF Began
  <2>5. \A f : Untouched(id, f)' <=> Untouched(id, f)
    BY <1>3 DEF Untouched
  <2>6. InStock(id)'
    BY <1>2, <1>4, <1>6, <2>3, <2>4, <2>5 DEF InStock
  <2>7. Achieved(id)'
    BY <1>2, <1>3, <1>4, <1>6 DEF Achieved
  <2>8. QED
    BY <1>1, <1>2, <2>2, <2>6, <2>7 DEF OperationOK, None
<1>8. \A other \in Operations : OperationOK(other)'
  <2> TAKE other \in Operations
  <2>1. CASE other # id
    <3>1. OperationOK(other) /\ ops'[other] = ops[other]
      BY <2>1, <1>2 DEF RemoteIInv
    <3>2. QED
      BY <3>1, <1>3, OperationKept DEF Complete
  <2>2. QED
    BY <2>1, <1>7
<1>9. ProcessesOK'
  <2>1. \A p \in processes : p.op \in Operations
    BY DEF RemoteIInv, RemoteTypes, ProcessRecords
  <2>2. \A p \in processes : /\ Live(p.op)' <=> Live(p.op)
                             /\ Now(p.op)' = Now(p.op) /\ Command(p.op)' = Command(p.op)
                             /\ ops'[p.op].cut = ops[p.op].cut
                             /\ ops'[p.op].result = ops[p.op].result
    BY <2>1, <1>2, <1>4 DEF Command
  <2>3. \A p \in processes : ops[p.op].link = "ready" => ops'[p.op].link = "ready"
    BY <2>1, <1>2
  <2>4. QED
    BY <2>2, <2>3, <1>3 DEF RemoteIInv, ProcessesOK
<1>10. JobsOK'
  <2>1. \A job \in jobs : job[1] \in Operations
    BY DEF RemoteIInv, RemoteTypes
  <2>2. \A job \in jobs : ops'[job[1]].cut = ops[job[1]].cut
    BY <2>1, <1>2
  <2>3. QED
    BY <2>1, <2>2, <1>3, <1>4 DEF RemoteIInv, JobsOK
<1>11. QED
  BY <1>5, <1>8, <1>9, <1>10 DEF RemoteIInv

(* Cancelling, and the connection of a session. *)
LEMMA CancelKeeps ==
  ASSUME RemoteIInv, NEW id \in Operations, Cancel(id)
  PROVE  RemoteIInv'
<1>1. Live(id) /\ host' = host /\ jobs' = jobs /\ begun' = begun /\ succeeded' = succeeded
  BY DEF Cancel
<1>2. CASE Now(id).listens /\ ops[id].link # "none"
  <2>1. Over(id, "cancelled", TRUE)
    BY <1>2 DEF Cancel
  <2>2. QED
    BY <2>1, <1>1, OverKeeps
<1>3. CASE ~(Now(id).listens /\ ops[id].link # "none")
  <2> DEFINE next == [ops[id] EXCEPT !.aborted = TRUE]
  <2>1. ops' = [ops EXCEPT ![id] = next] /\ processes' = processes
    BY <1>3 DEF Cancel
  <2>2. ops[id] \in OpTypes
    BY DEF RemoteIInv, RemoteTypes
  <2>3. /\ next \in OpTypes
        /\ next.kind = ops[id].kind /\ next.of = ops[id].of /\ next.todo = ops[id].todo
        /\ next.failing = ops[id].failing /\ next.cut = ops[id].cut
        /\ next.result = ops[id].result /\ next.link = ops[id].link
    BY <2>2 DEF OpTypes
  <2> HIDE DEF next
  <2>4. QED
    BY <2>1, <2>3, <1>1, <1>3, MovesKeep
<1>4. QED
  BY <1>2, <1>3

(* Nothing is opened for an operation that was told to stop. *)
LEMMA ConnectKeeps ==
  ASSUME RemoteIInv, NEW id \in Operations, Connect(id)
  PROVE  RemoteIInv'
<1>1. /\ Live(id) /\ host' = host /\ jobs' = jobs /\ begun' = begun /\ succeeded' = succeeded
      /\ ops[id].link = "none"
  BY DEF Connect
<1>2. CASE Stopped(id)
  <2>1. Over(id, "cancelled", FALSE)
    BY <1>2 DEF Connect
  <2>2. QED
    BY <2>1, <1>1, OverKeeps
<1>3. CASE ~Stopped(id)
  <2> DEFINE next == [ops[id] EXCEPT !.link = "connecting", !.tries = 1]
  <2>1. ops' = [ops EXCEPT ![id] = next] /\ processes' = processes
    BY <1>3 DEF Connect
  <2>2. ops[id] \in OpTypes
    BY DEF RemoteIInv, RemoteTypes
  <2>3. /\ next \in OpTypes
        /\ next.kind = ops[id].kind /\ next.of = ops[id].of /\ next.todo = ops[id].todo
        /\ next.failing = ops[id].failing /\ next.cut = ops[id].cut
        /\ next.result = ops[id].result /\ next.aborted = ops[id].aborted
    BY <2>2 DEF OpTypes
  <2>4. Now(id).listens => ~next.aborted
    BY <2>3, <1>3 DEF Stopped
  <2> HIDE DEF next
  <2>5. QED
    BY <2>1, <2>3, <2>4, <1>1, MovesKeep
<1>4. QED
  BY <1>2, <1>3

(* The key of the host is compared before a command is sent. *)
LEMMA HandshakeKeeps ==
  ASSUME RemoteIInv, NEW id \in Operations, Handshake(id)
  PROVE  RemoteIInv'
<1>1. /\ Live(id) /\ host' = host /\ jobs' = jobs /\ begun' = begun /\ succeeded' = succeeded
      /\ ops[id].link = "connecting"
  BY DEF Handshake
<1>2. CASE ~trusted
  <2>1. Over(id, "failed", FALSE)
    BY <1>2 DEF Handshake
  <2>2. QED
    BY <2>1, <1>1, OverKeeps
<1>3. CASE trusted
  <2> DEFINE next == [ops[id] EXCEPT !.link = "ready"]
  <2>1. ops' = [ops EXCEPT ![id] = next] /\ processes' = processes
    BY <1>3 DEF Handshake
  <2>2. ops[id] \in OpTypes
    BY DEF RemoteIInv, RemoteTypes
  <2>3. /\ next \in OpTypes
        /\ next.kind = ops[id].kind /\ next.of = ops[id].of /\ next.todo = ops[id].todo
        /\ next.failing = ops[id].failing /\ next.cut = ops[id].cut
        /\ next.result = ops[id].result /\ next.aborted = ops[id].aborted
    BY <2>2 DEF OpTypes
  <2>4. Now(id).listens => ~next.aborted
    BY <2>3, <1>1 DEF RemoteIInv, OperationOK, OnItsWay
  <2>5. next.link = "ready"
    BY <2>2 DEF OpTypes
  <2> HIDE DEF next
  <2>6. QED
    BY <2>1, <2>3, <2>4, <2>5, <1>1, MovesKeep
<1>4. QED
  BY <1>2, <1>3

(* Want of an answer is followed by another attempt, or by the end of the operation. *)
LEMMA UnansweredKeeps ==
  ASSUME RemoteIInv, NEW id \in Operations, Unanswered(id)
  PROVE  RemoteIInv'
<1>1. /\ Live(id) /\ host' = host /\ jobs' = jobs /\ begun' = begun /\ succeeded' = succeeded
      /\ ops[id].link = "connecting"
  BY DEF Unanswered
<1>2. CASE ~(ops[id].tries < Attempts)
  <2>1. Over(id, "failed", FALSE)
    BY <1>2 DEF Unanswered
  <2>2. QED
    BY <2>1, <1>1, OverKeeps
<1>3. CASE ops[id].tries < Attempts
  <2> DEFINE next == [ops[id] EXCEPT !.link = "waiting", !.tries = @ + 1]
  <2>1. ops' = [ops EXCEPT ![id] = next] /\ processes' = processes
    BY <1>3 DEF Unanswered
  <2>2. ops[id] \in OpTypes
    BY DEF RemoteIInv, RemoteTypes
  <2>a. ops[id].tries + 1 \in Nat
    BY <2>2 DEF OpTypes
  <2>b. next = [ops[id] EXCEPT !.link = "waiting", !.tries = ops[id].tries + 1]
    OBVIOUS
  <2>c. next \in OpTypes
    BY <2>2, <2>a, <2>b DEF OpTypes
  <2>3. /\ next \in OpTypes
        /\ next.kind = ops[id].kind /\ next.of = ops[id].of /\ next.todo = ops[id].todo
        /\ next.failing = ops[id].failing /\ next.cut = ops[id].cut
        /\ next.result = ops[id].result /\ next.aborted = ops[id].aborted
    BY <2>2, <2>c DEF OpTypes
  <2>4. Now(id).listens => ~next.aborted
    BY <2>3, <1>1 DEF RemoteIInv, OperationOK, OnItsWay
  <2> HIDE DEF next
  <2>5. QED
    BY <2>1, <2>3, <2>4, <1>1, MovesKeep
<1>4. QED
  BY <1>2, <1>3

(* A connection that breaks cuts the operation off. *)
LEMMA LostKeeps ==
  ASSUME RemoteIInv, NEW id \in Operations, Lost(id)
  PROVE  RemoteIInv'
BY OverKeeps DEF Lost

(* A session that is tried again has begun none of its commands. *)
LEMMA RetryKeeps ==
  ASSUME RemoteIInv, NEW id \in Operations, Retry(id)
  PROVE  RemoteIInv'
<1>1. /\ Live(id) /\ UNCHANGED <<host, jobs, processes, begun, succeeded>>
      /\ ops[id].link = "waiting"
  BY DEF Retry
<1>2. OnItsWay(id) /\ ops[id] \in OpTypes
  BY <1>1 DEF RemoteIInv, OperationOK, RemoteTypes
<1>3. Now(id).left = Now(id).commands /\ (Now(id).listens => ~ops[id].aborted)
  BY <1>1, <1>2 DEF OnItsWay
<1> DEFINE t == ops[id].todo
           next == [ops[id] EXCEPT !.link = "connecting", !.todo[1].left = Now(id).commands]
<1>4. /\ t \in Seq(SessionRecords) /\ t # <<>> /\ 1 \in DOMAIN t
      /\ t[1] = Now(id) /\ t[1] \in SessionRecords
  BY <1>2 DEF OnItsWay, OpTypes, Now
<1>5. [t[1] EXCEPT !.left = Now(id).commands] = t[1]
  BY <1>3, <1>4 DEF SessionRecords
<1>6. [t EXCEPT ![1] = t[1]] = t
  BY <1>4
<1>7. next.todo = t
  <2>1. next.todo = [t EXCEPT ![1] = [t[1] EXCEPT !.left = Now(id).commands]]
    BY <1>2 DEF OpTypes
  <2>2. QED
    BY <2>1, <1>5, <1>6
<1>8. ops' = [ops EXCEPT ![id] = next]
  BY DEF Retry
<1>9. /\ next.kind = ops[id].kind /\ next.of = ops[id].of /\ next.todo = ops[id].todo
      /\ next.failing = ops[id].failing /\ next.cut = ops[id].cut
      /\ next.result = ops[id].result /\ next.aborted = ops[id].aborted
  BY <1>2, <1>7 DEF OpTypes
<1>10. next = [ops[id] EXCEPT !.link = "connecting", !.todo = next.todo]
  BY <1>2 DEF OpTypes
<1>11. next \in OpTypes
  BY <1>10, <1>7, <1>4, <1>2 DEF OpTypes
<1> HIDE DEF next, t
<1>12. QED
  BY <1>1, <1>3, <1>8, <1>9, <1>11, MovesKeep

(* Only these sessions have commands that change the host. *)
LEMMA ChangingLeft ==
  ASSUME NEW w \in SessionKinds, NEW l \in LeftOf(w), NEW i \in DOMAIN l, l[i] \in Changing
  PROVE  w \in {"job", "bootstrap", "service"}
<1>1. CASE w # "job"
  <2>1. Tail(l) = <<>> /\ l = CommandsOf(w) /\ Head(l) = l[1] /\ l # <<>>
    BY <1>1, OtherLeft
  <2>2. w \in {"preflight", "status", "postCheck"} => DOMAIN l = {1} /\ l[1] \in {"look", "check"}
    BY <2>1 DEF CommandsOf
  <2>3. QED
    BY <2>2, <1>1 DEF Changing, SessionKinds
<1>2. QED
  BY <1>1

(* A session that begins: what must be known before it. *)
LEMMA SessionBegins ==
  ASSUME NEW id \in Operations, begun' \subseteq BegunRecords,
         NEW k \in Kinds, NEW f \in Profiles \cup {None}, k = "run" <=> f # None,
         NEW x, NEW rest, <<x, rest>> \in Stages(k, f),
         /\ ops'[id].kind = k /\ ops'[id].of = f /\ ops'[id].link = "none"
         /\ ops'[id].todo # <<>> /\ Head(ops'[id].todo) = x /\ Tail(ops'[id].todo) = rest,
         x.what \in {"job", "bootstrap", "service", "status"} => Untouched(id, x.of)',
         x.what = "preflight" /\ (k = "run" \/ rest # <<>>) => Untouched(id, x.of)',
         x.what = "preflight" /\ k = "run" /\ x.of = f => Untouched(id, Docker)',
         k = "run" /\ x.of # f => Untouched(id, f)'
  PROVE  OnItsWay(id)' /\ InStock(id)' /\ Now(id)'.left # <<"rm">>
<1>1. Now(id)' = x
  BY DEF Now
<1>3. Stage(id)' = <<Fresh(x), rest>>
  BY <1>1 DEF Stage
<1>4. x \in SessionRecords /\ Fresh(x) = x /\ x.left = x.commands /\ x.left \in LeftOf(x.what)
  BY NextSession
<1>5. OnItsWay(id)'
  BY <1>1, <1>3, <1>4 DEF OnItsWay
<1>6. x.what \in SessionKinds
  BY <1>4 DEF SessionRecords
<1>7. x.left # <<"rm">>
  <2>1. x.commands = CommandsOf(x.what)
    BY StageOf, IsSessionFields
  <2>2. CASE x.what = "job"
    <3>1. CommandsOf("job")[1] = "mkdir" /\ <<"rm">>[1] = "rm"
      BY DEF CommandsOf
    <3>2. QED
      BY <2>1, <2>2, <3>1, <1>4
  <2>3. CASE x.what # "job"
    BY <2>3, <1>4, <1>6, OtherLeft
  <2>4. QED
    BY <2>2, <2>3
<1>8. \A i \in DOMAIN x.left : ~Began(id, x.left[i], x.of)'
  <2> SUFFICES ASSUME NEW i \in DOMAIN x.left, Began(id, x.left[i], x.of)'
               PROVE  FALSE
    OBVIOUS
  <2>1. PICK b \in begun' : b.op = id /\ b.command = x.left[i] /\ b.of = x.of
    BY DEF Began
  <2>2. b.command \in Changing
    BY <2>1 DEF BegunRecords
  <2>3. x.what \in {"job", "bootstrap", "service"}
    BY <2>1, <2>2, <1>4, <1>6, ChangingLeft
  <2>4. Untouched(id, x.of)'
    BY <2>3, <1>1
  <2>5. QED
    BY <2>1, <2>4 DEF Untouched
<1>9. InStock(id)'
  <2>1. \A i \in DOMAIN Now(id)'.left :
          (Began(id, Now(id).left[i], Now(id).of) => i = 1 /\ Pending(id) # {})'
    BY <1>1, <1>8 DEF Began
  <2>2. QED
    BY <2>1, <1>1 DEF InStock, Untouched
<1>10. QED
  BY <1>1, <1>5, <1>7, <1>9

(* The sessions an operation starts with. *)
LEMMA FirstSessions ==
  ASSUME NEW kind \in Kinds, NEW p \in Profiles \cup {None}, kind = "run" <=> p # None
  PROVE  LET todo == Sessions(kind, p)
         IN  /\ todo \in Seq(SessionRecords) /\ todo # <<>>
             /\ <<Head(todo), Tail(todo)>> \in Stages(kind, p)
             /\ Head(todo).what # "postCheck"
             /\ kind = "repair" => Tail(todo) # <<>>
<1>1. None \in Profiles \cup {None}
  OBVIOUS
<1>2. CASE kind = "run"
  <2> DEFINE a == Preflight(p)  b == Job(p)  c == PostCheck(p)
  <2>1. Sessions(kind, p) = <<a, b, c>>
    BY <1>2 DEF Sessions
  <2>2. <<a, <<b, c>>>> \in Stages(kind, p) /\ a.what = "preflight"
    BY <1>2, Fields DEF Stages, Plain
  <2>3. a \in SessionRecords /\ b \in SessionRecords /\ c \in SessionRecords
    BY Constructors
  <2> HIDE DEF a, b, c
  <2>4. <<a, b, c>> \in Seq(SessionRecords) /\ Head(<<a, b, c>>) = a /\ Tail(<<a, b, c>>) = <<b, c>>
        /\ <<a, b, c>> # <<>>
    BY <2>3
  <2>5. QED
    BY <2>1, <2>2, <2>4, <1>2
<1>3. CASE kind = "repair"
  <2> DEFINE a == Preflight(None)  b == Status  c == Bootstrap
  <2>1. Sessions(kind, p) = <<a, b, c, a>>
    BY <1>3 DEF Sessions
  <2>2. <<a, <<b, c, a>>>> \in Stages(kind, p) /\ a.what = "preflight"
    BY <1>3, Fields DEF Stages
  <2>3. a \in SessionRecords /\ b \in SessionRecords /\ c \in SessionRecords
    BY <1>1, Constructors
  <2> HIDE DEF a, b, c
  <2>4. /\ <<a, b, c, a>> \in Seq(SessionRecords) /\ Head(<<a, b, c, a>>) = a
        /\ Tail(<<a, b, c, a>>) = <<b, c, a>> /\ <<a, b, c, a>> # <<>> /\ <<b, c, a>> # <<>>
    BY <2>3
  <2>5. QED
    BY <2>1, <2>2, <2>4
<1>4. CASE kind = "bootstrap"
  <2> DEFINE b == Status  c == Bootstrap
  <2>1. Sessions(kind, p) = <<b, c>>
    BY <1>4 DEF Sessions
  <2>2. <<b, <<c>>>> \in Stages(kind, p) /\ b.what = "status"
    BY <1>4, Fields DEF Stages
  <2>3. b \in SessionRecords /\ c \in SessionRecords
    BY <1>1, Constructors
  <2> HIDE DEF b, c
  <2>4. /\ <<b, c>> \in Seq(SessionRecords) /\ Head(<<b, c>>) = b /\ Tail(<<b, c>>) = <<c>>
        /\ <<b, c>> # <<>>
    BY <2>3
  <2>5. QED
    BY <2>1, <2>2, <2>4, <1>4
<1>5. CASE kind = "service"
  <2> DEFINE b == Service
  <2>1. Sessions(kind, p) = <<b>>
    BY <1>5 DEF Sessions
  <2>2. <<b, <<>>>> \in Stages(kind, p) /\ b.what = "service"
    BY <1>5, Fields DEF Stages
  <2>3. b \in SessionRecords
    BY <1>1, Constructors
  <2> HIDE DEF b
  <2>4. /\ <<b>> \in Seq(SessionRecords) /\ Head(<<b>>) = b /\ Tail(<<b>>) = <<>>
        /\ <<b>> # <<>>
    BY <2>3
  <2>5. QED
    BY <2>1, <2>2, <2>4, <1>5
<1>6. QED
  BY <1>2, <1>3, <1>4, <1>5 DEF Kinds

(* An operation starts with all its sessions to come and nothing begun. *)
LEMMA StartKeeps ==
  ASSUME RemoteIInv, NEW id \in Operations, NEW kind \in Kinds,
         NEW profile \in Profiles \cup {None},
         Start(id, kind, profile)
  PROVE  RemoteIInv'
<1> USE DockerStandsAlone
<1> DEFINE todo == Sessions(kind, profile)
           next == [Absent EXCEPT !.kind = kind, !.of = profile, !.todo = todo]
<1>1. /\ ops[id] = Absent /\ (kind = "run" <=> profile # None) /\ ops' = [ops EXCEPT ![id] = next]
      /\ UNCHANGED <<host, jobs, processes, begun, succeeded>>
  BY DEF Start, Kinds
<1>2. /\ todo \in Seq(SessionRecords) /\ todo # <<>>
      /\ <<Head(todo), Tail(todo)>> \in Stages(kind, profile)
      /\ Head(todo).what # "postCheck"
      /\ kind = "repair" => Tail(todo) # <<>>
  BY <1>1, FirstSessions
<1> HIDE DEF todo
<1>a. next = [Absent EXCEPT !.kind = kind, !.of = profile, !.todo = todo]
  OBVIOUS
<1> HIDE DEF next
<1>3. next = [kind |-> kind, of |-> profile, todo |-> todo, link |-> "none", tries |-> 0,
              failing |-> FALSE, aborted |-> FALSE, cut |-> FALSE, result |-> None]
  BY <1>a DEF Absent
<1>4. /\ next \in OpTypes /\ next.kind = kind /\ next.of = profile /\ next.todo = todo
      /\ next.link = "none" /\ next.result = None
  BY <1>2, <1>3 DEF OpTypes, None
<1>5. ops \in [Operations -> OpTypes]
  BY DEF RemoteIInv, RemoteTypes
<1>6. /\ ops' \in [Operations -> OpTypes] /\ ops'[id] = next
      /\ \A other \in Operations \ {id} : ops'[other] = ops[other]
  BY <1>1, <1>4, <1>5
<1>7. RemoteTypes'
  <2>1. host' = host /\ jobs' = jobs /\ processes' = processes /\ begun' = begun
    BY <1>1
  <2>2. RemoteTypes
    BY DEF RemoteIInv
  <2>3. QED
    BY <2>1, <2>2, <1>6 DEF RemoteTypes
<1>8. \A b \in begun : b.op # id
  <2>1. ops[id].kind = None
    BY <1>1 DEF Absent
  <2>2. OperationOK(id)
    BY DEF RemoteIInv
  <2>3. QED
    BY <2>1, <2>2 DEF OperationOK
<1>9. \A f : Untouched(id, f)'
  BY <1>8, <1>1 DEF Untouched
<1>10. Now(id)' = Head(todo)
  BY <1>4, <1>6 DEF Now
<1>11. OnItsWay(id)' /\ InStock(id)' /\ Now(id)'.left # <<"rm">>
  <2> DEFINE x == Head(todo)  rest == Tail(todo)
  <2>1. /\ <<x, rest>> \in Stages(kind, profile) /\ ops'[id].kind = kind /\ ops'[id].of = profile
        /\ ops'[id].link = "none" /\ ops'[id].todo # <<>> /\ Head(ops'[id].todo) = x
        /\ Tail(ops'[id].todo) = rest
    BY <1>2, <1>4, <1>6
  <2> HIDE DEF x, rest
  <2>2. QED
    BY <2>1, <1>1, <1>7, <1>9, SessionBegins DEF RemoteTypes
<1>12. Achieved(id)'
  BY <1>2, <1>4, <1>6, <1>10, <1>11 DEF Achieved
<1>13. OperationOK(id)'
  BY <1>4, <1>6, <1>11, <1>12 DEF OperationOK, Kinds, None
<1>14. \A other \in Operations : OperationOK(other)'
  <2> TAKE other \in Operations
  <2>1. CASE other # id
    <3>1. OperationOK(other) /\ ops'[other] = ops[other]
      BY <2>1, <1>6 DEF RemoteIInv
    <3>2. QED
      BY <3>1, <1>1, OperationKept DEF Complete
  <2>2. QED
    BY <2>1, <1>13
<1>15. ~Live(id) /\ ops[id].cut = FALSE /\ ops[id].result = None
  BY <1>1 DEF Live, Absent
<1>16. ProcessesOK'
  <2>1. \A p \in processes : p.op \in Operations /\ p.heard \in BOOLEAN
    BY DEF RemoteIInv, RemoteTypes, ProcessRecords
  <2>2. \A p \in processes : p.heard => p.op # id
    BY <1>15 DEF RemoteIInv, ProcessesOK
  <2>3. \A p \in processes : ~p.heard /\ p.command = "mkdir" => p.op # id
    BY <1>15 DEF RemoteIInv, ProcessesOK
  <2>4. processes' = processes
    BY <1>1
  <2>5. QED
    BY <2>1, <2>2, <2>3, <2>4, <1>6 DEF RemoteIInv, ProcessesOK, Live, Command, Now
<1>17. JobsOK'
  <2>1. \A job \in jobs : job[1] \in Operations /\ job[1] # id
    BY <1>15 DEF RemoteIInv, RemoteTypes, JobsOK
  <2>2. QED
    BY <2>1, <1>1, <1>6 DEF RemoteIInv, JobsOK, Live, Now
<1>18. QED
  BY <1>7, <1>14, <1>16, <1>17 DEF RemoteIInv

(* The command that is next. *)
LEMMA CommandNext ==
  ASSUME RemoteTypes, NEW id \in Operations, Live(id), OnItsWay(id)
  PROVE  /\ Command(id) \in CommandNames
         /\ 1 \in DOMAIN Now(id).left /\ Command(id) = Now(id).left[1]
         /\ Command(id) \in {"mkdir", "upload", "syntax", "play", "rm"} <=> Now(id).what = "job"
         /\ \A i \in DOMAIN Now(id).left : Now(id).left[i] = Command(id) => i = 1
         /\ Command(id) = "bootstrap" <=> Now(id).what = "bootstrap"
         /\ Command(id) = "check" <=> Now(id).what = "postCheck"
         /\ Now(id).what = "job" => ops[id].kind = "run" /\ Now(id).of \in Profiles
<1> USE DockerStandsAlone
<1> DEFINE w == Now(id).what  l == Now(id).left  c == Command(id)
<1>1. /\ w \in SessionKinds /\ l \in LeftOf(w) /\ c = Head(l)
      /\ Placed(ops[id].kind, ops[id].of, Now(id), Tail(ops[id].todo))
      /\ ops[id].kind \in Kinds /\ ops[id].of \in Profiles \cup {None}
      /\ ops[id].kind = "run" <=> ops[id].of # None
  BY UnderWay DEF Command
<1>2. w = "job" => ops[id].kind = "run" /\ Now(id).of \in Profiles
  BY <1>1 DEF Placed, Kinds
<1> HIDE DEF w, l, c
<1>3. ASSUME w = "job"
      PROVE  /\ c \in CommandNames /\ 1 \in DOMAIN l /\ c = l[1]
             /\ c \in {"mkdir", "upload", "syntax", "play", "rm"} <=> w = "job"
             /\ \A i \in DOMAIN l : l[i] = c => i = 1
             /\ c = "bootstrap" <=> w = "bootstrap"
             /\ c = "check" <=> w = "postCheck"
  <2>1. /\ Head(l) = l[1] /\ 1 \in DOMAIN l /\ \A i \in DOMAIN l : l[i] = l[1] => i = 1
        /\ Head(l) \in {"mkdir", "upload", "syntax", "play", "rm"}
    BY <1>1, <1>3, JobLeft
  <2>2. /\ c \in {"mkdir", "upload", "syntax", "play", "rm"} /\ c = l[1] /\ c \in CommandNames
        /\ c # "bootstrap" /\ c # "check"
    BY <2>1, <1>1 DEF CommandNames
  <2>3. QED
    BY <2>1, <2>2, <1>3
<1>4. ASSUME w # "job"
      PROVE  /\ c \in CommandNames /\ 1 \in DOMAIN l /\ c = l[1]
             /\ c \in {"mkdir", "upload", "syntax", "play", "rm"} <=> w = "job"
             /\ \A i \in DOMAIN l : l[i] = c => i = 1
             /\ c = "bootstrap" <=> w = "bootstrap"
             /\ c = "check" <=> w = "postCheck"
  <2>1. /\ Head(l) = l[1] /\ 1 \in DOMAIN l /\ \A i \in DOMAIN l : l[i] = l[1] => i = 1
        /\ Head(l) = IF w \in {"preflight", "status"} THEN "look"
                      ELSE IF w = "bootstrap" THEN "bootstrap"
                      ELSE IF w = "postCheck" THEN "check" ELSE "restart"
    BY <1>1, <1>4, OtherLeft
  <2>2. /\ c \notin {"mkdir", "upload", "syntax", "play", "rm"} /\ c = l[1] /\ c \in CommandNames
        /\ c = "bootstrap" <=> w = "bootstrap"
        /\ c = "check" <=> w = "postCheck"
    BY <2>1, <1>1, <1>4 DEF CommandNames, SessionKinds
  <2>3. QED
    BY <2>1, <2>2, <1>4
<1>5. QED
  BY <1>2, <1>3, <1>4 DEF w, l, c

(* The command that begins has not begun before, and the operation was not cancelled. *)
LEMMA BeginKeeps ==
  ASSUME RemoteIInv, NEW id \in Operations, Begin(id)
  PROVE  RemoteIInv'
<1> DEFINE c == Command(id)  f == Now(id).of  n == Count(id, c, f)
           q == [op |-> id, command |-> c, of |-> f, heard |-> TRUE, n |-> n]
           b0 == [op |-> id, command |-> c, of |-> f, n |-> n, late |-> ops[id].aborted]
<1>1. /\ Live(id) /\ ops[id].link = "ready" /\ Pending(id) = {}
      /\ host' = host /\ jobs' = jobs /\ ops' = ops /\ succeeded' = succeeded
      /\ processes' = processes \cup {q}
      /\ begun' = IF c \in Changing THEN begun \cup {b0} ELSE begun
  BY DEF Begin
<1>2. RemoteTypes /\ OnItsWay(id) /\ InStock(id) /\ Achieved(id) /\ OperationOK(id)
  BY <1>1 DEF RemoteIInv, OperationOK
<1>3. /\ c \in CommandNames /\ 1 \in DOMAIN Now(id).left /\ c = Now(id).left[1]
      /\ c \in {"mkdir", "upload", "syntax", "play", "rm"} <=> Now(id).what = "job"
      /\ \A i \in DOMAIN Now(id).left : Now(id).left[i] = c => i = 1
      /\ Now(id).what = "job" => ops[id].kind = "run" /\ f \in Profiles
  BY <1>1, <1>2, CommandNext
<1>4. /\ f \in Profiles \cup {None} /\ Now(id).what \in SessionKinds
      /\ Now(id).left \in LeftOf(Now(id).what)
      /\ Placed(ops[id].kind, ops[id].of, Now(id), Tail(ops[id].todo))
      /\ ops[id].kind \in Kinds /\ ops[id].aborted \in BOOLEAN
  BY <1>1, <1>2, UnderWay DEF OpTypes
<1>5. ~Began(id, c, f)
  BY <1>1, <1>2, <1>3 DEF InStock
<1>6. n = 0
  <2>1. {b \in begun : b.op = id /\ b.command = c /\ b.of = f} = {}
    BY <1>5 DEF Began
  <2>2. QED
    BY <2>1, FS_EmptySet DEF Count
<1>7. c \in Changing => Now(id).what \in {"job", "bootstrap", "service"} /\ ~ops[id].aborted
  <2>1. c \in Changing => Now(id).what \in {"job", "bootstrap", "service"}
    BY <1>3, <1>4, ChangingLeft
  <2>2. Now(id).what \in {"job", "bootstrap", "service"} => Now(id).listens
    BY <1>4 DEF Placed
  <2>3. QED
    BY <2>1, <2>2, <1>1, <1>2 DEF OnItsWay
<1> HIDE DEF c, f, n
<1>8. q \in ProcessRecords /\ q.heard = TRUE /\ q.op = id /\ q.command = c /\ q.of = f
  BY <1>3, <1>4, <1>6 DEF ProcessRecords
<1>9. c \in Changing => b0 \in BegunRecords /\ b0.op = id /\ b0.of = f /\ b0.command = c
  BY <1>4, <1>6, <1>7 DEF BegunRecords
<1> HIDE DEF q, b0
<1>10. begun \subseteq begun' /\ \A b \in begun' : b \notin begun => b = b0 /\ c \in Changing
  BY <1>1
<1>11. RemoteTypes'
  <2>1. processes' \subseteq ProcessRecords
    BY <1>1, <1>2, <1>8 DEF RemoteTypes
  <2>2. begun' \subseteq BegunRecords
    BY <1>10, <1>2, <1>9 DEF RemoteTypes
  <2>3. QED
    BY <2>1, <2>2, <1>1, <1>2 DEF RemoteTypes
<1>12. /\ \A other \in Operations : /\ Live(other)' <=> Live(other)
                                    /\ Now(other)' = Now(other) /\ Stage(other)' = Stage(other)
                                    /\ Command(other)' = Command(other)
  BY <1>1 DEF Live, Now, Stage, Command
<1>13. InStock(id)'
  <2>1. q \in Pending(id)'
    BY <1>1, <1>8 DEF Pending
  <2>2. \A x, g : Began(id, x, g)' => Began(id, x, g) \/ (x = c /\ g = f /\ c \in Changing)
    BY <1>9, <1>10 DEF Began
  <2>3. \A i \in DOMAIN Now(id).left : ~Began(id, Now(id).left[i], Now(id).of)
    BY <1>1, <1>2 DEF InStock
  <2>4. \A i \in DOMAIN Now(id).left :
          Began(id, Now(id).left[i], Now(id).of)' => i = 1 /\ Pending(id)' # {}
    BY <2>1, <2>2, <2>3, <1>3, <1>12
  <2>5. \A g : Untouched(id, g) => Untouched(id, g)' \/ (g = f /\ c \in Changing)
    BY <1>9, <1>10 DEF Untouched
  <2>6. Now(id).what \in {"status", "preflight"} => \A g : Untouched(id, g) => Untouched(id, g)'
    BY <2>5, <1>7
  <2>7. ops[id].kind = "run" /\ Now(id).of # ops[id].of =>
          (Untouched(id, ops[id].of) => Untouched(id, ops[id].of)')
    BY <2>5, <1>1 DEF f, Untouched
  <2>8. \A g : Untouched(id, g)' <=> (\A b \in begun' : ~(b.op = id /\ b.of = g))
    BY DEF Untouched
  <2>9. /\ ops' = ops /\ Now(id)' = Now(id)
        /\ InStock(id)
    BY <1>1, <1>2, <1>12
  <2>10. (\A i \in DOMAIN Now(id).left :
            Began(id, Now(id).left[i], Now(id).of) => i = 1 /\ Pending(id) # {})'
    BY <2>4, <2>9
  <2>11. (\/ Now(id).what = "status"
          \/ Now(id).what = "preflight" /\ (ops[id].kind = "run" \/ Tail(ops[id].todo) # <<>>)
          => Untouched(id, Now(id).of))'
    BY <2>6, <2>9 DEF InStock
  <2>12. (Now(id).what = "preflight" /\ ops[id].kind = "run" /\ Now(id).of = ops[id].of =>
            Untouched(id, Docker))'
    BY <2>6, <2>9 DEF InStock
  <2>13. (ops[id].kind = "run" /\ Now(id).of # ops[id].of => Untouched(id, ops[id].of))'
    BY <2>7, <2>9 DEF InStock
  <2>14. QED
    BY <2>10, <2>11, <2>12, <2>13 DEF InStock
<1>14. OperationOK(id)'
  <2>1. OnItsWay(id)'
    BY <1>1, <1>2, <1>12 DEF OnItsWay
  <2>2. Achieved(id)'
    BY <1>1, <1>2, <1>12 DEF Achieved
  <2>3. ops[id].kind # None /\ ops[id].result = None
    BY <1>1 DEF Live
  <2>4. QED
    BY <2>1, <2>2, <2>3, <1>13, <1>1 DEF OperationOK, None
<1>15. \A other \in Operations : OperationOK(other)'
  <2> TAKE other \in Operations
  <2>1. CASE other # id
    <3>1. OperationOK(other) /\ ops'[other] = ops[other] /\ succeeded \subseteq succeeded'
      BY <1>1 DEF RemoteIInv
    <3>2. \A b : b.op = other => (b \in begun' <=> b \in begun)
      BY <1>9, <1>10, <2>1
    <3>3. \A p : p.op = other /\ p.heard /\ p \in processes => p \in processes'
      BY <1>1
    <3>4. QED
      BY <3>1, <3>2, <3>3, <1>1, OperationKept DEF Complete
  <2>2. QED
    BY <2>1, <1>14
<1>16. ProcessesOK'
  <2>1. \A p \in processes : p.heard => p.op # id
    BY <1>1 DEF Pending
  <2>2. \A p \in processes : p.op \in Operations
    BY <1>2 DEF RemoteTypes, ProcessRecords
  <2>3. c = "play" => f \in Profiles
    BY <1>3
  <2>4. q.command = Command(id) /\ q.of = Now(id).of
    BY <1>8 DEF c, f
  <2>5. \A p \in processes' : p.heard =>
          /\ Live(p.op)' /\ ops'[p.op].link = "ready"
          /\ p.command = Command(p.op)' /\ p.of = Now(p.op)'.of
    BY <2>2, <2>4, <1>1, <1>8, <1>12 DEF RemoteIInv, ProcessesOK
  <2>6. \A p, r \in processes' : p.heard /\ r.heard /\ p.op = r.op => p = r
    BY <2>1, <1>1, <1>8 DEF RemoteIInv, ProcessesOK
  <2>7. \A p \in processes' : ~p.heard /\ p.command = "mkdir" =>
          ops'[p.op].cut /\ ops'[p.op].result # None
    BY <1>1, <1>8 DEF RemoteIInv, ProcessesOK
  <2>8. \A p \in processes' : p.command = "play" => p.of \in Profiles
    BY <2>3, <1>1, <1>8 DEF RemoteIInv, ProcessesOK
  <2>9. QED
    BY <2>5, <2>6, <2>7, <2>8 DEF ProcessesOK
<1>17. JobsOK'
  BY <1>1 DEF RemoteIInv, JobsOK, Live, Now
<1>18. QED
  BY <1>11, <1>15, <1>16, <1>17 DEF RemoteIInv

(* What happens to the host is none of the program's doing. *)
LEMMA ElsewhereKeeps ==
  ASSUME RemoteIInv, Elsewhere
  PROVE  RemoteIInv'
<1>1. /\ jobs' = jobs /\ processes' = processes /\ ops' = ops
      /\ begun' = begun /\ succeeded' = succeeded
  BY DEF Elsewhere
<1>2. RemoteTypes /\ host \in Hosts
  BY DEF RemoteIInv, RemoteTypes
<1>3. host' \in Hosts /\ (Complete(host) => Complete(host'))
  <2>1. CASE host' = host
    BY <2>1, <1>2
  <2>2. CASE \E s \in Profiles : host' = [host EXCEPT !.services = @ \ {s}]
    BY <2>2, <1>2 DEF Hosts, Complete
  <2>3. CASE \E s \in Listening : host' = [host EXCEPT !.taken = @ \cup {s}]
    BY <2>3, <1>2, ProfilesListen DEF Hosts, Complete
  <2>4. CASE host' = [host EXCEPT !.locked = ~@]
    BY <2>4, <1>2 DEF Hosts, Complete
  <2>5. QED
    BY <2>1, <2>2, <2>3, <2>4 DEF Elsewhere
<1>4. RemoteTypes'
  BY <1>1, <1>2, <1>3 DEF RemoteTypes
<1>5. \A id \in Operations : OperationOK(id)'
  BY <1>1, <1>3, OperationKept DEF RemoteIInv
<1>6. ProcessesOK'
  BY <1>1 DEF RemoteIInv, ProcessesOK, Live, Command, Now
<1>7. JobsOK'
  BY <1>1 DEF RemoteIInv, JobsOK, Live, Now
<1>8. QED
  BY <1>4, <1>5, <1>6, <1>7 DEF RemoteIInv

\* An operation hears of its command, and the host has become what it left.
Hears(p, outcome) ==
  /\ ops' = [ops EXCEPT ![p.op] = Heard(p.op, outcome)]
  /\ \A q \in processes' :
       q \in processes \ {p} \/ (outcome = "late" /\ q = [p EXCEPT !.heard = FALSE])
  /\ processes \ {p} \subseteq processes'
  /\ host' \in Hosts /\ (Complete(host) => Complete(host'))
  /\ outcome = "success" /\ p.command = "bootstrap" => Complete(host')
  /\ jobs' \subseteq jobs \cup {<<p.op, p.of>>}
  /\ <<p.op, p.of>> \in jobs' =>
       \/ <<p.op, p.of>> \in jobs /\ ~(outcome = "success" /\ p.command = "rm")
       \/ outcome = "success" /\ p.command = "mkdir"
  /\ succeeded \subseteq succeeded'
  /\ outcome = "success" /\ p.command \in {"play", "check"} =>
       <<p.op, p.command, p.of>> \in succeeded'
  /\ begun' = begun

\* What has to be so of the operation that hears.
Settled(p, outcome) ==
  /\ ops'[p.op] \in OpTypes /\ ops'[p.op].kind # None
  /\ outcome = "late" /\ p.command = "mkdir" => ops'[p.op].cut /\ ops'[p.op].result # None
  /\ \A job \in jobs' : job[1] = p.op =>
       \/ ops'[p.op].cut
       \/ /\ ops'[p.op].result = None
          /\ LET s == Head(ops'[p.op].todo)
             IN  s.what = "job" /\ s.of = job[2] /\ s.left # s.commands

(* The operation of a command that is heard is under way, at that command. *)
LEMMA HeardOf ==
  ASSUME RemoteIInv, NEW p \in processes, p.heard
  PROVE  /\ p.op \in Operations /\ Live(p.op) /\ OnItsWay(p.op) /\ InStock(p.op) /\ Achieved(p.op)
         /\ ops[p.op] \in OpTypes /\ ops[p.op].link = "ready" /\ ops[p.op].kind \in Kinds
         /\ ops[p.op].result = None
         /\ p.command = Command(p.op) /\ p.of = Now(p.op).of
         /\ ops \in [Operations -> OpTypes] /\ RemoteTypes
<1>1. p.op \in Operations
  BY DEF RemoteIInv, RemoteTypes, ProcessRecords
<1>2. Live(p.op) /\ ops[p.op].link = "ready" /\ p.command = Command(p.op) /\ p.of = Now(p.op).of
  BY DEF RemoteIInv, ProcessesOK
<1>3. OnItsWay(p.op) /\ InStock(p.op) /\ Achieved(p.op)
  BY <1>1, <1>2 DEF RemoteIInv, OperationOK
<1>4. QED
  BY <1>1, <1>2, <1>3 DEF RemoteIInv, RemoteTypes, OnItsWay, Live

(* The directories of an operation, before and after. *)
LEMMA JobsHeard ==
  ASSUME RemoteIInv, NEW p \in processes, p.heard, NEW outcome, Hears(p, outcome),
         NEW job \in jobs', job[1] = p.op
  PROVE  \/ ops[p.op].cut
         \/ /\ job \in jobs /\ Now(p.op).what = "job" /\ Now(p.op).of = job[2]
            /\ Now(p.op).left # Now(p.op).commands /\ job[2] = p.of
            /\ ~(outcome = "success" /\ p.command = "rm")
         \/ outcome = "success" /\ p.command = "mkdir" /\ job[2] = p.of
<1>1. job \in jobs \/ job = <<p.op, p.of>>
  BY DEF Hears
<1>2. p.of = Now(p.op).of
  BY HeardOf
<1>3. job \in jobs => \/ ops[p.op].cut
                      \/ /\ Now(p.op).what = "job" /\ Now(p.op).of = job[2]
                         /\ Now(p.op).left # Now(p.op).commands
  BY DEF RemoteIInv, JobsOK
<1>4. job \in jobs /\ job[2] = p.of => job = <<p.op, p.of>>
  BY DEF RemoteIInv, RemoteTypes
<1>5. job = <<p.op, p.of>> => job[2] = p.of
  OBVIOUS
<1>6. QED
  BY <1>1, <1>2, <1>3, <1>4, <1>5 DEF Hears

(* An operation that fails is cut off from its directory, or has none. *)
LEMMA HeardFails ==
  ASSUME RemoteIInv, NEW p \in processes, p.heard, NEW outcome \in {"success", "failure", "late"},
         Hears(p, outcome), NEW cut \in BOOLEAN,
         /\ Heard(p.op, outcome) = Answered(ops[p.op], "failed", cut)
         /\ outcome = "late" => cut
         /\ Now(p.op).what = "job" => Command(p.op) \in {"rm", "mkdir"}
         /\ Command(p.op) = "rm" /\ outcome # "success" => cut
         /\ Command(p.op) = "mkdir" => outcome # "success"
  PROVE  Settled(p, outcome) /\ OperationOK(p.op)'
<1> DEFINE id == p.op  next == Answered(ops[id], "failed", cut)
<1>1. /\ id \in Operations /\ ops \in [Operations -> OpTypes] /\ ops[id] \in OpTypes
      /\ ops[id].kind # None /\ p.command = Command(id) /\ RemoteTypes /\ Live(id) /\ OnItsWay(id)
  BY HeardOf DEF Live
<1>2. /\ next \in OpTypes /\ next.kind = ops[id].kind /\ next.result = "failed"
      /\ next.result # None /\ next.cut = (ops[id].cut \/ cut)
  BY <1>1, AnsweredFields
<1>3. ops'[id] = next
  BY <1>1 DEF Hears
<1> HIDE DEF next
<1>4. OperationOK(id)'
  BY <1>1, <1>2, <1>3, AnsweredOK
<1>5. \A job \in jobs' : job[1] = id => next.cut
  <2> SUFFICES ASSUME NEW job \in jobs', job[1] = id, ~cut, ~ops[id].cut
               PROVE  FALSE
    BY <1>2
  <2>1. \/ /\ Now(id).what = "job" /\ Now(id).left # Now(id).commands
           /\ ~(outcome = "success" /\ p.command = "rm")
        \/ outcome = "success" /\ p.command = "mkdir"
    BY JobsHeard
  <2>2. CASE outcome = "success" /\ p.command = "mkdir"
    BY <2>2, <1>1
  <2>3. CASE /\ Now(id).what = "job" /\ Now(id).left # Now(id).commands
             /\ ~(outcome = "success" /\ p.command = "rm")
    <3>1. p.command = "mkdir"
      BY <2>3, <1>1
    <3>2. Now(id).left = CommandsOf("job")
      BY <3>1, <2>3, <1>1, UnderWay, JobLeft DEF Command
    <3>3. Now(id).commands = CommandsOf("job")
      BY <2>3, <1>1, UnderWay DEF Placed
    <3>4. QED
      BY <3>2, <3>3, <2>3
  <2>4. QED
    BY <2>1, <2>2, <2>3
<1>6. QED
  BY <1>1, <1>2, <1>3, <1>4, <1>5 DEF Settled

(* A job goes on, with what is left of its commands or with the removal of its directory. *)
LEMMA JobGoesOn ==
  ASSUME RemoteIInv, NEW p \in processes, p.heard, NEW outcome \in {"success", "failure", "late"},
         Hears(p, outcome), NEW l \in LeftOf("job"), NEW failing \in BOOLEAN,
         Now(p.op).what = "job", l # CommandsOf("job"),
         \/ l = Tail(Now(p.op).left) /\ l # <<"rm">> /\ outcome = "success" /\ p.command # "rm"
         \/ /\ l = <<"rm">> /\ p.command # "mkdir" /\ p.command # "rm"
            /\ failing \/ (outcome = "success" /\ p.command = "play"),
         Heard(p.op, outcome) = [ops[p.op] EXCEPT !.todo[1].left = l, !.failing = failing]
  PROVE  Settled(p, outcome) /\ OperationOK(p.op)'
<1> DEFINE id == p.op  op == ops[id]  s == Now(id)  rest == Tail(op.todo)
           mid == [op EXCEPT !.todo[1].left = l]
           next == [op EXCEPT !.todo[1].left = l, !.failing = failing]
<1>1. /\ id \in Operations /\ ops \in [Operations -> OpTypes] /\ op \in OpTypes
      /\ op.kind # None /\ op.kind \in Kinds /\ op.result = None /\ op.link = "ready"
      /\ p.command = Command(id) /\ p.of = s.of
      /\ RemoteTypes /\ Live(id) /\ OnItsWay(id) /\ InStock(id) /\ Achieved(id)
  BY HeardOf DEF Kinds, None
<1>2. /\ op.todo # <<>> /\ s \in SessionRecords /\ s.left \in LeftOf("job")
      /\ Placed(op.kind, op.of, s, rest)
  BY <1>1, UnderWay
<1>3. s.commands = CommandsOf("job") /\ op.kind = "run"
  BY <1>1, <1>2 DEF Placed, Kinds
<1>4. ops'[id] = next
  BY <1>1 DEF Hears
<1>5. "job" \in SessionKinds
  BY DEF SessionKinds
<1>6. /\ mid = [op EXCEPT !.todo = mid.todo]
      /\ mid \in OpTypes /\ mid.todo # <<>> /\ Head(mid.todo) = [s EXCEPT !.left = l]
      /\ Head(mid.todo) \in SessionRecords /\ Tail(mid.todo) = rest
  <2>1. op \in OpTypes /\ op.todo # <<>> /\ s = Head(op.todo)
    BY <1>1, <1>2 DEF Now
  <2> HIDE DEF op, s
  <2>2. QED
    BY <2>1, <1>5, LeftIsSet
<1>7. next = [mid EXCEPT !.failing = failing]
  OBVIOUS
<1>8. /\ mid.kind = op.kind /\ mid.of = op.of /\ mid.link = op.link /\ mid.aborted = op.aborted
      /\ mid.cut = op.cut /\ mid.result = op.result
  BY <1>1, <1>6 DEF OpTypes
<1> HIDE DEF mid, next
<1>9. /\ next \in OpTypes /\ next.kind = op.kind /\ next.of = op.of /\ next.link = op.link
      /\ next.aborted = op.aborted /\ next.cut = op.cut /\ next.result = op.result
      /\ next.todo = mid.todo /\ next.failing = failing
  BY <1>6, <1>7, <1>8 DEF OpTypes
<1> DEFINE s2 == [s EXCEPT !.left = l]
<1>10. /\ s2.what = s.what /\ s2.of = s.of /\ s2.commands = s.commands /\ s2.listens = s.listens
       /\ s2.left = l /\ Fresh(s2) = Fresh(s)
  BY <1>2 DEF SessionRecords, Fresh
<1>11. Now(id)' = s2 /\ Tail(ops'[id].todo) = rest
  BY <1>4, <1>6, <1>9 DEF Now
<1> HIDE DEF s2
<1>12. Stage(id)' = Stage(id)
  BY <1>10, <1>11 DEF Stage
<1>13. OnItsWay(id)'
  BY <1>1, <1>4, <1>6, <1>9, <1>10, <1>11, <1>12 DEF OnItsWay
<1>14. \A c, g : Began(id, c, g)' <=> Began(id, c, g)
  BY DEF Hears, Began
<1>15. \A i \in DOMAIN l : ~Began(id, l[i], s.of)
  <2> SUFFICES ASSUME NEW i \in DOMAIN l
               PROVE  ~Began(id, l[i], s.of)
    OBVIOUS
  <2>1. CASE l = <<"rm">>
    <3>1. l[i] = "rm"
      BY <2>1
    <3>2. QED
      BY <3>1, <1>1 DEF Began, RemoteTypes, BegunRecords, Changing
  <2>2. CASE l = Tail(s.left)
    <3>1. i + 1 \in DOMAIN s.left /\ l[i] = s.left[i + 1] /\ i + 1 # 1
      BY <2>2, <1>2, JobLeft
    <3>2. QED
      BY <3>1, <1>1 DEF InStock
  <2>3. QED
    BY <2>1, <2>2
<1>16. \A g : Untouched(id, g)' <=> Untouched(id, g)
  BY DEF Hears, Untouched
<1>17. InStock(id)'
  BY <1>1, <1>3, <1>4, <1>9, <1>10, <1>11, <1>14, <1>15, <1>16 DEF InStock
<1>18. Achieved(id)'
  <2>1. l = <<"rm">> /\ ~failing => <<id, "play", s.of>> \in succeeded'
    <3>1. <<"rm">>[1] = "rm"
      OBVIOUS
    <3>2. QED
      BY <3>1, <1>1 DEF Hears
  <2>2. QED
    BY <2>1, <1>3, <1>4, <1>9, <1>10, <1>11 DEF Achieved
<1>19. OperationOK(id)'
  BY <1>1, <1>3, <1>4, <1>9, <1>13, <1>17, <1>18 DEF OperationOK, None
<1>20. \A job \in jobs' : job[1] = id => next.cut \/ s.of = job[2]
  BY <1>1, <1>9, JobsHeard
<1>21. ~(outcome = "late" /\ p.command = "mkdir")
  OBVIOUS
<1>22. Head(next.todo) = s2
  BY <1>6, <1>9 DEF s2
<1>23. QED
  BY <1>1, <1>3, <1>4, <1>9, <1>10, <1>19, <1>20, <1>21, <1>22 DEF Settled

(* A session is over, and with its last one the operation. *)
LEMMA SessionOver ==
  ASSUME RemoteIInv, NEW p \in processes, p.heard, NEW outcome \in {"success", "failure", "late"},
         Hears(p, outcome), NEW cut \in BOOLEAN,
         Heard(p.op, outcome) = Done(ops[p.op], Following(p.op), cut),
         \/ /\ Now(p.op).what = "job" /\ Command(p.op) = "rm" /\ ~ops[p.op].failing
            /\ cut = (outcome # "success")
         \/ /\ Now(p.op).what # "job" /\ cut = FALSE
            /\ outcome = "success" \/ (Now(p.op).what = "status" /\ outcome = "failure")
  PROVE  Settled(p, outcome) /\ OperationOK(p.op)'
<1> USE DockerStandsAlone
<1> DEFINE id == p.op  op == ops[id]  s == Now(id)  rest == Tail(op.todo)  todo == Following(id)
           k == op.kind  f == op.of  next == Done(op, todo, cut)
<1>1. /\ id \in Operations /\ ops \in [Operations -> OpTypes] /\ op \in OpTypes
      /\ k # None /\ k \in Kinds /\ op.result = None /\ op.cut \in BOOLEAN
      /\ p.command = Command(id) /\ p.of = s.of
      /\ RemoteTypes /\ Live(id) /\ OnItsWay(id) /\ InStock(id) /\ Achieved(id)
  BY HeardOf DEF Kinds, None, OpTypes
<1>2. /\ op.todo # <<>> /\ s.what \in SessionKinds /\ Placed(k, f, s, rest)
      /\ f \in Profiles \cup {None} /\ (k = "run" <=> f # None)
  BY <1>1, UnderWay
<1>3. /\ Command(id) \in {"mkdir", "upload", "syntax", "play", "rm"} <=> s.what = "job"
      /\ Command(id) = "bootstrap" <=> s.what = "bootstrap"
      /\ Command(id) = "check" <=> s.what = "postCheck"
  BY <1>1, CommandNext
<1>4. /\ todo \in Seq(SessionRecords)
      /\ todo = <<>> => rest = <<>>
      /\ todo # <<>> => <<Head(todo), Tail(todo)>> \in Stages(k, f)
      /\ \/ todo = rest
         \/ /\ s.what = "preflight" /\ s.of \in OnDocker /\ k = "run" /\ s.of = f
            /\ Head(todo).what = "preflight" /\ Head(todo).of = Docker
  BY <1>1, FollowingOf
<1>5. s.what = "job" => s.left = <<"rm">>
  BY <1>1, UnderWay, JobLeft DEF Command
<1>6. ops'[id] = next
  BY <1>1 DEF Hears
<1>7. s.what = "job" \/ s.what = "postCheck" => <<id, "play", s.of>> \in succeeded'
  BY <1>1, <1>5 DEF Achieved, Hears
<1>8. s.what = "bootstrap" => Complete(host')
  BY <1>1, <1>3 DEF Hears
<1>9. k = "repair" /\ rest = <<>> => Complete(host')
  BY <1>1 DEF Achieved, Hears
<1>10. \A job \in jobs' : job[1] = id => op.cut \/ cut
  <2> SUFFICES ASSUME NEW job \in jobs', job[1] = id, ~op.cut
               PROVE  cut
    OBVIOUS
  <2>1. \/ Now(id).what = "job" /\ ~(outcome = "success" /\ p.command = "rm")
        \/ p.command = "mkdir"
    BY JobsHeard
  <2>2. QED
    BY <2>1, <1>1, <1>3
<1>11. ~(outcome = "late" /\ p.command = "mkdir")
  BY <1>1, <1>3
<1> HIDE DEF todo, next
<1>12. CASE todo = <<>>
  <2>1. next = Answered(op, "ok", cut)
    BY <1>12 DEF next, Done
  <2>2. /\ next \in OpTypes /\ next.kind = k /\ next.of = f /\ next.result = "ok"
        /\ next.result # None /\ next.cut = (op.cut \/ cut)
    BY <2>1, <1>1, AnsweredFields
  <2>3. rest = <<>>
    BY <1>4, <1>12
  <2>4. k = "run" => {<<id, "play", f>>, <<id, "check", f>>} \subseteq succeeded'
    <3> SUFFICES ASSUME k = "run"
                 PROVE  <<id, "play", f>> \in succeeded' /\ <<id, "check", f>> \in succeeded'
      OBVIOUS
    <3>1. s.what = "postCheck" /\ s.of = f
      BY <2>3, <1>2 DEF Placed
    <3>2. outcome = "success" /\ p.command = "check" /\ p.of = f
      BY <3>1, <1>1, <1>3
    <3>3. <<id, "check", f>> \in succeeded'
      BY <3>2 DEF Hears
    <3>4. QED
      BY <3>1, <3>3, <1>7
  <2>5. k = "bootstrap" => s.what = "bootstrap"
    BY <2>3, <1>2 DEF Placed
  <2>6. k \in {"repair", "bootstrap"} => Complete(host')
    BY <2>3, <2>5, <1>8, <1>9
  <2>7. OperationOK(id)'
    BY <2>2, <2>4, <2>6, <1>1, <1>6 DEF OperationOK, Live, Complete
  <2>8. QED
    BY <2>2, <2>7, <1>1, <1>6, <1>10, <1>11 DEF Settled
<1>13. CASE todo # <<>>
  <2> DEFINE torn == op.cut \/ cut  x == Head(todo)  after == Tail(todo)
  <2>1. next = [op EXCEPT !.todo = todo, !.link = "none", !.cut = torn]
    BY <1>13 DEF next, Done
  <2>2. torn \in BOOLEAN
    OBVIOUS
  <2> HIDE DEF torn
  <2>3. /\ next \in OpTypes /\ next.kind = k /\ next.of = f /\ next.result = None
        /\ next.link = "none" /\ next.todo = todo /\ next.cut = torn
    BY <2>1, <2>2, <1>1, <1>4 DEF OpTypes
  <2>4. <<x, after>> \in Stages(k, f)
    BY <1>4, <1>13
  <2>5. \/ todo = rest /\ x = Head(rest) /\ after = Tail(rest) /\ rest # <<>>
        \/ /\ s.what = "preflight" /\ s.of \in OnDocker /\ k = "run" /\ s.of = f
           /\ x.what = "preflight" /\ x.of = Docker
    BY <1>4, <1>13
  <2>6. Now(id)' = x /\ Tail(ops'[id].todo) = after /\ ops'[id].todo # <<>>
    BY <2>3, <1>6, <1>13 DEF Now
  <2>7. \A g : Untouched(id, g)' <=> Untouched(id, g)
    BY DEF Hears, Untouched
  <2>8. /\ s.what = "status" => Untouched(id, s.of)
        /\ s.what = "preflight" /\ (k = "run" \/ rest # <<>>) => Untouched(id, s.of)
        /\ s.what = "preflight" /\ k = "run" /\ s.of = f => Untouched(id, Docker)
        /\ k = "run" /\ s.of # f => Untouched(id, f)
    BY <1>1 DEF InStock
  <2> HIDE DEF x, after
  <2>9. /\ x.what \in {"job", "bootstrap", "service", "status"} => Untouched(id, x.of)
        /\ x.what = "preflight" /\ (k = "run" \/ after # <<>>) => Untouched(id, x.of)
        /\ x.what = "preflight" /\ k = "run" /\ x.of = f => Untouched(id, Docker)
        /\ k = "run" /\ x.of # f => Untouched(id, f)
    <3>1. CASE k = "run"
      BY <3>1, <2>5, <2>8, <1>2 DEF Placed
    <3>2. CASE k = "repair"
      BY <3>2, <2>5, <2>8, <1>2 DEF Placed
    <3>3. CASE k = "bootstrap"
      BY <3>3, <2>5, <2>8, <1>2 DEF Placed
    <3>4. CASE k = "service"
      BY <3>4, <2>5, <1>2 DEF Placed
    <3>5. QED
      BY <3>1, <3>2, <3>3, <3>4, <1>1 DEF Kinds
  <2>10. OnItsWay(id)' /\ InStock(id)' /\ Now(id)'.left # <<"rm">>
    <3>1. /\ ops'[id].kind = k /\ ops'[id].of = f /\ ops'[id].link = "none"
          /\ ops'[id].todo # <<>> /\ Head(ops'[id].todo) = x /\ Tail(ops'[id].todo) = after
      BY <2>3, <2>6, <1>6 DEF x
    <3>2. begun' \subseteq BegunRecords
      BY <1>1 DEF RemoteTypes, Hears
    <3> HIDE DEF k, f
    <3>3. QED
      BY <3>1, <3>2, <2>4, <2>7, <2>9, <1>1, <1>2, SessionBegins
  <2>11. x.what = "postCheck" => <<id, "play", x.of>> \in succeeded'
    BY <2>5, <1>1, <1>2, <1>7 DEF Placed, Kinds
  <2>12. k = "repair" /\ after = <<>> => Complete(host')
    BY <2>5, <1>2, <1>8 DEF Placed
  <2>13. Achieved(id)'
    BY <2>3, <2>6, <2>10, <2>11, <2>12, <1>6 DEF Achieved, Complete
  <2>14. OperationOK(id)'
    BY <2>3, <2>10, <2>13, <1>1, <1>6 DEF OperationOK, None
  <2>15. QED
    BY <2>3, <2>14, <1>1, <1>6, <1>10, <1>11 DEF Settled, torn
<1>14. QED
  BY <1>12, <1>13

(* An operation that hears of its command keeps the invariant. *)
LEMMA HeardSettles ==
  ASSUME RemoteIInv, NEW p \in processes, p.heard, NEW outcome \in {"success", "failure", "late"},
         Hears(p, outcome)
  PROVE  Settled(p, outcome) /\ OperationOK(p.op)'
<1> DEFINE id == p.op  op == ops[id]  s == Now(id)  command == Command(id)
           next == Heard(id, outcome)
<1>1. /\ id \in Operations /\ Live(id) /\ OnItsWay(id) /\ op \in OpTypes /\ RemoteTypes
      /\ p.command = command /\ op.failing \in BOOLEAN
  BY HeardOf DEF OpTypes
<1>2. s.left \in LeftOf(s.what)
  BY <1>1, UnderWay
<1>3. \/ \E cut \in BOOLEAN :
            /\ next = Answered(op, "failed", cut)
            /\ outcome = "late" => cut
            /\ s.what = "job" => command \in {"rm", "mkdir"}
            /\ command = "rm" /\ outcome # "success" => cut
            /\ command = "mkdir" => outcome # "success"
      \/ \E failing \in BOOLEAN :
            /\ next = Cleaning(op, failing)
            /\ s.what = "job" /\ command \notin {"mkdir", "rm"}
            /\ failing \/ (outcome = "success" /\ command = "play")
      \/ /\ next = [op EXCEPT !.todo[1].left = Tail(s.left)]
         /\ outcome = "success" /\ s.what = "job" /\ command # "rm"
         /\ Tail(s.left) # <<>>
      \/ \E cut \in BOOLEAN :
            /\ next = Done(op, Following(id), cut)
            /\ \/ s.what = "job" /\ command = "rm" /\ ~op.failing /\ cut = (outcome # "success")
               \/ /\ s.what # "job" /\ cut = FALSE
                  /\ outcome = "success" \/ (s.what = "status" /\ outcome = "failure")
  BY <1>1, HeardCases
<1>4. CASE \E cut \in BOOLEAN :
            /\ next = Answered(op, "failed", cut)
            /\ outcome = "late" => cut
            /\ s.what = "job" => command \in {"rm", "mkdir"}
            /\ command = "rm" /\ outcome # "success" => cut
            /\ command = "mkdir" => outcome # "success"
  BY <1>4, HeardFails
<1>5. CASE \E failing \in BOOLEAN :
            /\ next = Cleaning(op, failing)
            /\ s.what = "job" /\ command \notin {"mkdir", "rm"}
            /\ failing \/ (outcome = "success" /\ command = "play")
  <2>1. PICK failing \in BOOLEAN :
            /\ next = Cleaning(op, failing)
            /\ s.what = "job" /\ command \notin {"mkdir", "rm"}
            /\ failing \/ (outcome = "success" /\ command = "play")
    BY <1>5
  <2> DEFINE l == <<"rm">>
  <2>2. l \in LeftOf("job") /\ l # CommandsOf("job")
    <3>1. l \in LeftOf("job") /\ CommandsOf("job")[1] = "mkdir" /\ l[1] = "rm"
      BY DEF LeftOf, CommandsOf
    <3>2. QED
      BY <3>1
  <2>3. next = [op EXCEPT !.todo[1].left = l, !.failing = failing]
    BY <2>1 DEF Cleaning
  <2>4. l = <<"rm">>
    OBVIOUS
  <2>5. /\ s.what = "job" /\ p.command # "mkdir" /\ p.command # "rm"
        /\ failing \/ (outcome = "success" /\ p.command = "play")
    BY <2>1, <1>1
  <2> HIDE DEF l
  <2>6. QED
    BY <2>2, <2>3, <2>4, <2>5, JobGoesOn, ZenonT(60)
<1>6. CASE /\ next = [op EXCEPT !.todo[1].left = Tail(s.left)]
           /\ outcome = "success" /\ s.what = "job" /\ command # "rm"
           /\ Tail(s.left) # <<>>
  <2> DEFINE l == Tail(s.left)  failing == op.failing
  <2>1. l \in LeftOf("job") /\ l # CommandsOf("job") /\ l # <<"rm">>
    BY <1>2, <1>6, JobLeft
  <2>2. next = [op EXCEPT !.todo[1].left = l, !.failing = failing]
    <3>1. [op EXCEPT !.todo[1].left = l, !.failing = op.failing] = [op EXCEPT !.todo[1].left = l]
      BY <1>1 DEF OpTypes
    <3>2. QED
      BY <3>1, <1>6
  <2>3. failing \in BOOLEAN /\ l = Tail(s.left)
    BY <1>1
  <2> HIDE DEF l, failing
  <2>4. QED
    BY <2>1, <2>2, <2>3, <1>1, <1>6, JobGoesOn
<1>7. CASE \E cut \in BOOLEAN :
            /\ next = Done(op, Following(id), cut)
            /\ \/ s.what = "job" /\ command = "rm" /\ ~op.failing /\ cut = (outcome # "success")
               \/ /\ s.what # "job" /\ cut = FALSE
                  /\ outcome = "success" \/ (s.what = "status" /\ outcome = "failure")
  BY <1>7, SessionOver
<1>8. QED
  BY <1>3, <1>4, <1>5, <1>6, <1>7

(* Whatever it hears, the rest of the invariant is kept. *)
LEMMA HeardKeeps ==
  ASSUME RemoteIInv, NEW p \in processes, p.heard, NEW outcome \in {"success", "failure", "late"},
         Hears(p, outcome)
  PROVE  RemoteIInv'
<1> DEFINE id == p.op
<1>1. /\ id \in Operations /\ ops \in [Operations -> OpTypes] /\ RemoteTypes
      /\ ops[id].result = None /\ Live(id)
  BY HeardOf
<1>2. Settled(p, outcome) /\ OperationOK(id)'
  BY HeardSettles
<1>3. /\ ops' \in [Operations -> OpTypes]
      /\ \A other \in Operations \ {id} : ops'[other] = ops[other]
  <2>1. ops'[id] \in OpTypes
    BY <1>2 DEF Settled
  <2>2. QED
    BY <2>1, <1>1 DEF Hears
<1>4. p \in ProcessRecords
  BY <1>1 DEF RemoteTypes
<1>5. \A q \in processes' :
        \/ q \in processes /\ q # p
        \/ /\ outcome = "late" /\ q \in ProcessRecords /\ ~q.heard
           /\ q.op = id /\ q.command = p.command /\ q.of = p.of
  <2> TAKE q \in processes'
  <2>1. q \in processes \ {p} \/ (outcome = "late" /\ q = [p EXCEPT !.heard = FALSE])
    BY DEF Hears
  <2>2. CASE outcome = "late" /\ q = [p EXCEPT !.heard = FALSE]
    BY <2>2, <1>4 DEF ProcessRecords
  <2>3. QED
    BY <2>1, <2>2
<1>6. \A q \in processes : q.op \in Operations /\ q \in ProcessRecords /\ q.heard \in BOOLEAN
  BY <1>1 DEF RemoteTypes, ProcessRecords
<1>7. RemoteTypes'
  <2>1. host' \in Hosts /\ begun' = begun
    BY DEF Hears
  <2>2. jobs' \subseteq Operations \X (Profiles \cup {None})
    <3>1. <<p.op, p.of>> \in Operations \X (Profiles \cup {None})
      BY <1>4 DEF ProcessRecords
    <3>2. QED
      BY <3>1, <1>1 DEF RemoteTypes, Hears
  <2>3. processes' \subseteq ProcessRecords
    BY <1>5, <1>6
  <2>4. QED
    BY <2>1, <2>2, <2>3, <1>1, <1>3 DEF RemoteTypes
<1>8. \A other \in Operations : OperationOK(other)'
  <2> TAKE other \in Operations
  <2>1. CASE other # id
    <3>1. OperationOK(other) /\ ops'[other] = ops[other]
      BY <2>1, <1>3 DEF RemoteIInv
    <3>2. \A q : q.op = other /\ q.heard /\ q \in processes => q \in processes'
      BY <2>1 DEF Hears
    <3>3. begun' = begun /\ succeeded \subseteq succeeded' /\ (Complete(host) => Complete(host)')
      BY DEF Hears, Complete
    <3>4. QED
      BY <3>1, <3>2, <3>3, OperationKept
  <2>2. QED
    BY <2>1, <1>2
<1>9. ProcessesOK'
  <2>1. \A q \in processes' : q.heard => q \in processes /\ q.op # id
    BY <1>5 DEF RemoteIInv, ProcessesOK
  <2>2. \A q \in processes' : q.heard =>
          /\ Live(q.op)' /\ ops'[q.op].link = "ready"
          /\ q.command = Command(q.op)' /\ q.of = Now(q.op)'.of
    <3> TAKE q \in processes'
    <3> HAVE q.heard
    <3>1. q \in processes /\ q.op # id /\ q.op \in Operations
      BY <2>1, <1>6
    <3>2. /\ Live(q.op) /\ ops[q.op].link = "ready"
          /\ q.command = Command(q.op) /\ q.of = Now(q.op).of
      BY <3>1 DEF RemoteIInv, ProcessesOK
    <3>3. ops'[q.op] = ops[q.op]
      BY <3>1, <1>3
    <3>4. QED
      BY <3>2, <3>3 DEF Live, Command, Now
  <2>3. \A q, r \in processes' : q.heard /\ r.heard /\ q.op = r.op => q = r
    BY <2>1 DEF RemoteIInv, ProcessesOK
  <2>4. \A q \in processes' : ~q.heard /\ q.command = "mkdir" =>
          ops'[q.op].cut /\ ops'[q.op].result # None
    <3> TAKE q \in processes'
    <3> HAVE ~q.heard /\ q.command = "mkdir"
    <3>1. CASE q \in processes
      <4>1. ops[q.op].cut /\ ops[q.op].result # None /\ q.op \in Operations
        BY <3>1, <1>6 DEF RemoteIInv, ProcessesOK
      <4>2. ops'[q.op] = ops[q.op]
        BY <4>1, <1>1, <1>3
      <4>3. QED
        BY <4>1, <4>2
    <3>2. CASE outcome = "late" /\ q.op = id /\ q.command = p.command
      BY <3>2, <1>2 DEF Settled
    <3>3. QED
      BY <3>1, <3>2, <1>5
  <2>5. \A q \in processes' : q.command = "play" => q.of \in Profiles
    BY <1>5 DEF RemoteIInv, ProcessesOK
  <2>6. QED
    BY <2>2, <2>3, <2>4, <2>5 DEF ProcessesOK
<1>10. JobsOK'
  <2> SUFFICES ASSUME NEW job \in jobs'
               PROVE  \/ ops'[job[1]].cut
                      \/ /\ Live(job[1])' /\ Now(job[1])'.what = "job" /\ Now(job[1])'.of = job[2]
                         /\ Now(job[1])'.left # Now(job[1])'.commands
    BY DEF JobsOK
  <2>1. job[1] \in Operations
    BY <1>7 DEF RemoteTypes
  <2>2. CASE job[1] = id
    BY <2>2, <1>2 DEF Settled, Live, Now
  <2>3. CASE job[1] # id
    <3>1. job \in jobs
      BY <2>3 DEF Hears
    <3>2. ops'[job[1]] = ops[job[1]]
      BY <2>1, <2>3, <1>3
    <3>3. QED
      BY <3>1, <3>2 DEF RemoteIInv, JobsOK, Live, Now
  <2>4. QED
    BY <2>2, <2>3
<1>11. QED
  BY <1>7, <1>8, <1>9, <1>10 DEF RemoteIInv

(* What the end of a command makes of the host. *)
LEMMA HostAfter ==
  ASSUME RemoteIInv, NEW p \in processes, NEW well \in BOOLEAN, Ends(p, well)
  PROVE  /\ host' \in Hosts /\ (Complete(host) => Complete(host'))
         /\ well /\ p.command = "bootstrap" => Complete(host')
<1>1. host \in Hosts /\ (p.command = "play" => p.of \in Profiles)
  BY DEF RemoteIInv, RemoteTypes, ProcessesOK
<1>2. /\ WithPackages(host) \in Hosts /\ (Complete(host) => Complete(WithPackages(host)))
      /\ WithPackages(host).curl /\ WithPackages(host).ss
      /\ host.python \/ host.offered => WithPackages(host).python
  BY <1>1 DEF WithPackages, Hosts, Complete
<1>3. /\ WithRuntime(host) \in Hosts
      /\ WithPackages(host).python => Complete(WithRuntime(host))
  BY <1>2 DEF WithRuntime, Hosts, Complete
<1>4. \A profile \in Profiles :
        LET served == [host EXCEPT !.services = @ \cup {profile}]
            stopped == [host EXCEPT !.services = @ \ {profile}]
        IN  /\ served \in Hosts /\ (Complete(host) => Complete(served))
            /\ stopped \in Hosts /\ (Complete(host) => Complete(stopped))
  BY <1>1 DEF Hosts, Complete
<1>5. CASE well
  <2>1. Succeeds(p) /\ Effect(p)
    BY <1>5 DEF Ends
  <2>2. CASE p.command = "bootstrap"
    <3>1. host' = WithRuntime(host) /\ (host.python \/ host.offered)
      BY <2>1, <2>2 DEF Effect, Succeeds
    <3>2. QED
      BY <3>1, <1>2, <1>3
  <2>3. CASE p.command = "play"
    <3>1. host' = [host EXCEPT !.services = @ \cup {p.of}]
      BY <2>1, <2>3 DEF Effect
    <3>2. QED
      BY <3>1, <2>3, <1>1, <1>4
  <2>4. CASE p.command \notin {"bootstrap", "play"}
    <3>1. host' = host
      BY <2>1, <2>4 DEF Effect
    <3>2. QED
      BY <3>1, <2>4, <1>1
  <2>5. QED
    BY <2>2, <2>3, <2>4
<1>6. CASE ~well
  <2>1. PartialEffect(p)
    BY <1>6 DEF Ends
  <2>2. \/ host' = host
        \/ host' = WithPackages(host)
        \/ p.command = "play" /\ host' = [host EXCEPT !.services = @ \ {p.of}]
    BY <2>1 DEF PartialEffect
  <2>3. QED
    BY <2>2, <1>1, <1>2, <1>4, <1>6
<1>7. QED
  BY <1>5, <1>6

(* And of the directories of the jobs. *)
LEMMA JobsAfter ==
  ASSUME NEW p, NEW well \in BOOLEAN, Ends(p, well)
  PROVE  /\ jobs' \subseteq jobs \cup {<<p.op, p.of>>}
         /\ <<p.op, p.of>> \in jobs' =>
              \/ <<p.op, p.of>> \in jobs /\ ~(well /\ p.command = "rm")
              \/ well /\ p.command = "mkdir"
<1>1. CASE well
  <2>1. Effect(p)
    BY <1>1 DEF Ends
  <2>2. CASE p.command = "mkdir"
    BY <2>1, <2>2, <1>1 DEF Effect
  <2>3. CASE p.command = "rm"
    BY <2>1, <2>3, <1>1 DEF Effect
  <2>4. CASE p.command \notin {"mkdir", "rm"}
    BY <2>1, <2>4, <1>1 DEF Effect
  <2>5. QED
    BY <2>2, <2>3, <2>4
<1>2. CASE ~well
  BY <1>2 DEF Ends, PartialEffect
<1>3. QED
  BY <1>1, <1>2

(* A command ends, heard or not. *)
LEMMA EndsKeeps ==
  ASSUME RemoteIInv, NEW p \in processes, NEW well \in BOOLEAN, Ends(p, well)
  PROVE  RemoteIInv'
<1>1. /\ host' \in Hosts /\ (Complete(host) => Complete(host'))
      /\ well /\ p.command = "bootstrap" => Complete(host')
  BY HostAfter
<1>2. /\ jobs' \subseteq jobs \cup {<<p.op, p.of>>}
      /\ <<p.op, p.of>> \in jobs' =>
           \/ <<p.op, p.of>> \in jobs /\ ~(well /\ p.command = "rm")
           \/ well /\ p.command = "mkdir"
  BY JobsAfter
<1>3. /\ processes' = processes \ {p} /\ begun' = begun
      /\ succeeded' = IF well /\ p.command \in Proving
                      THEN succeeded \cup {<<p.op, p.command, p.of>>} ELSE succeeded
  BY DEF Ends
<1>4. /\ succeeded \subseteq succeeded'
      /\ well /\ p.command \in {"play", "check"} => <<p.op, p.command, p.of>> \in succeeded'
  BY <1>3 DEF Proving
<1>5. CASE p.heard
  <2> DEFINE outcome == IF well THEN "success" ELSE "failure"
  <2>1. ops' = [ops EXCEPT ![p.op] = Heard(p.op, outcome)]
    BY <1>5 DEF Ends
  <2>2. /\ outcome \in {"success", "failure", "late"} /\ (outcome = "success" <=> well)
    OBVIOUS
  <2> HIDE DEF outcome
  <2>3. Hears(p, outcome)
    BY <2>1, <2>2, <1>1, <1>2, <1>3, <1>4 DEF Hears
  <2>4. QED
    BY <2>2, <2>3, <1>5, HeardKeeps
<1>6. CASE ~p.heard
  <2>1. ops' = ops
    BY <1>6 DEF Ends
  <2>2. RemoteTypes /\ p \in ProcessRecords
    BY DEF RemoteIInv, RemoteTypes
  <2>3. RemoteTypes'
    <3>1. jobs' \subseteq Operations \X (Profiles \cup {None})
      <4>1. <<p.op, p.of>> \in Operations \X (Profiles \cup {None})
        BY <2>2 DEF ProcessRecords
      <4>2. QED
        BY <4>1, <2>2, <1>2 DEF RemoteTypes
    <3>2. QED
      BY <3>1, <2>1, <2>2, <1>1, <1>3 DEF RemoteTypes
  <2>4. \A id \in Operations : OperationOK(id)'
    <3> TAKE id \in Operations
    <3>1. OperationOK(id) /\ ops'[id] = ops[id] /\ (Complete(host) => Complete(host)')
      BY <2>1, <1>1 DEF RemoteIInv, Complete
    <3>2. \A q : q.op = id /\ q.heard /\ q \in processes => q \in processes'
      BY <1>3, <1>6
    <3>3. QED
      BY <3>1, <3>2, <1>3, <1>4, OperationKept
  <2>5. ProcessesOK'
    BY <2>1, <1>3 DEF RemoteIInv, ProcessesOK, Live, Command, Now
  <2>6. JobsOK'
    <3> SUFFICES ASSUME NEW job \in jobs'
                 PROVE  \/ ops[job[1]].cut
                        \/ /\ Live(job[1]) /\ Now(job[1]).what = "job" /\ Now(job[1]).of = job[2]
                           /\ Now(job[1]).left # Now(job[1]).commands
      BY <2>1 DEF JobsOK, Live, Now
    <3>1. CASE job \in jobs
      BY <3>1 DEF RemoteIInv, JobsOK
    <3>2. CASE job = <<p.op, p.of>> /\ p.command = "mkdir"
      <4>1. ops[p.op].cut
        BY <3>2, <1>6 DEF RemoteIInv, ProcessesOK
      <4>2. job[1] = p.op
        BY <3>2
      <4>3. QED
        BY <4>1, <4>2
    <3>3. QED
      BY <3>1, <3>2, <1>2
  <2>7. QED
    BY <2>3, <2>4, <2>5, <2>6 DEF RemoteIInv
<1>7. QED
  BY <1>5, <1>6

(* A command is waited for no longer, and goes on unheard. *)
LEMMA TimesOutKeeps ==
  ASSUME RemoteIInv, NEW p \in processes, TimesOut(p)
  PROVE  RemoteIInv'
<1>1. /\ p.heard /\ processes' = (processes \ {p}) \cup {[p EXCEPT !.heard = FALSE]}
      /\ ops' = [ops EXCEPT ![p.op] = Heard(p.op, "late")]
      /\ host' = host /\ jobs' = jobs /\ begun' = begun /\ succeeded' = succeeded
  BY DEF TimesOut
<1>2. host \in Hosts
  BY DEF RemoteIInv, RemoteTypes
<1>3. Hears(p, "late")
  BY <1>1, <1>2 DEF Hears
<1>4. QED
  BY <1>1, <1>3, HeardKeeps

(* Every step keeps the invariant. *)
LEMMA RemoteKeeps ==
  ASSUME RemoteIInv, [RemoteNext]_remoteVars
  PROVE  RemoteIInv'
<1>1. ASSUME NEW id \in Operations, NEW kind \in {"run", "repair", "bootstrap", "service"},
             NEW profile \in Profiles \cup {None}, Start(id, kind, profile)
      PROVE  RemoteIInv'
  BY <1>1, StartKeeps DEF Kinds
<1>2. ASSUME NEW id \in Operations,
             \/ Cancel(id) \/ Connect(id) \/ Handshake(id) \/ Unanswered(id) \/ Retry(id)
             \/ Lost(id) \/ Begin(id)
      PROVE  RemoteIInv'
  BY <1>2, CancelKeeps, ConnectKeeps, HandshakeKeeps, UnansweredKeeps, RetryKeeps, LostKeeps,
     BeginKeeps
<1>3. ASSUME NEW p \in processes, TimesOut(p) \/ \E well \in BOOLEAN : Ends(p, well)
      PROVE  RemoteIInv'
  BY <1>3, TimesOutKeeps, EndsKeeps
<1>4. CASE UNCHANGED remoteVars
  <2>1. /\ host' = host /\ jobs' = jobs /\ processes' = processes /\ ops' = ops /\ begun' = begun
        /\ succeeded' = succeeded
    BY <1>4 DEF remoteVars
  <2>2. RemoteTypes'
    BY <2>1 DEF RemoteIInv, RemoteTypes
  <2>3. \A id \in Operations : OperationOK(id)'
    BY <2>1, OperationKept DEF RemoteIInv, Complete
  <2>4. ProcessesOK'
    BY <2>1 DEF RemoteIInv, ProcessesOK, Live, Command, Now
  <2>5. JobsOK'
    BY <2>1 DEF RemoteIInv, JobsOK, Live, Now
  <2>6. QED
    BY <2>2, <2>3, <2>4, <2>5 DEF RemoteIInv
<1>5. QED
  BY <1>1, <1>2, <1>3, <1>4, ElsewhereKeeps DEF RemoteNext

(* It holds of every host as the program starts. *)
LEMMA RemoteStarts ==
  ASSUME NEW hosts \in SUBSET Hosts, RemoteInit(hosts)
  PROVE  RemoteIInv
<1>1. /\ host \in Hosts /\ jobs = {} /\ processes = {} /\ begun = {} /\ succeeded = {}
      /\ ops = [id \in Operations |-> Absent]
  BY DEF RemoteInit
<1>2. Absent \in OpTypes /\ Absent.kind = None
  <2>1. <<>> \in Seq(SessionRecords)
    OBVIOUS
  <2>2. QED
    BY <2>1 DEF Absent, OpTypes, None
<1>3. RemoteTypes
  BY <1>1, <1>2 DEF RemoteTypes
<1>4. \A id \in Operations : OperationOK(id)
  BY <1>1, <1>2 DEF OperationOK, Live, None
<1>5. ProcessesOK /\ JobsOK
  BY <1>1 DEF ProcessesOK, JobsOK
<1>6. QED
  BY <1>3, <1>4, <1>5 DEF RemoteIInv

(* A host with the packages and the runtime has nothing a preparation could repair. *)
LEMMA NothingToRepair ==
  ASSUME NEW h \in Hosts, Complete(h), NEW profile \in Profiles \cup {None}
  PROVE  Report(h, profile) # "needs-repair"
<1>1. /\ Provided(h.python) # "repairable" /\ Provided(h.ansible) # "repairable"
      /\ \A holds \in BOOLEAN : Held(holds) # "repairable" /\ Reachable(h, holds) # "repairable"
  BY DEF Complete, Provided, Reachable, Held
<1>2. "repairable" \notin GeneralChecks(h)
  BY <1>1 DEF GeneralChecks, Hosts
<1>3. PortCheck(h, profile) # "repairable"
  BY <1>1 DEF PortCheck, Complete
<1>4. "repairable" \notin ProfileChecks(h, profile)
  BY <1>3 DEF ProfileChecks, Reachable, Held, Complete
<1>5. "repairable" \notin Checks(h, profile)
  BY <1>2, <1>4 DEF Checks
<1>6. QED
  BY <1>5 DEF Report

(* And what the runs promise follows from it. *)
LEMMA RemoteImplies ==
  ASSUME RemoteIInv
  PROVE  RunsAreExact
<1>1. RemoteTypes
  BY DEF RemoteIInv
<1>2. NeverTwice /\ NothingAfterCancel
  BY <1>1 DEF RemoteTypes, BegunRecords, NeverTwice, NothingAfterCancel
<1>3. SuccessIsReal
  BY DEF RemoteIInv, OperationOK, SuccessIsReal
<1>4. CleansUp
  <2> SUFFICES ASSUME NEW job \in jobs, ops[job[1]].result # None
               PROVE  ops[job[1]].cut
    BY DEF CleansUp
  <2>1. QED
    BY DEF RemoteIInv, JobsOK, Live
<1>5. PreparedIsPrepared
  <2>1. host \in Hosts
    BY <1>1 DEF RemoteTypes
  <2>2. \A id \in Operations : ops[id].kind \in {"repair", "bootstrap"} /\ ops[id].result = "ok" =>
          Complete(host)
    BY DEF RemoteIInv, OperationOK
  <2>3. QED
    BY <2>1, <2>2, NothingToRepair DEF PreparedIsPrepared
<1>6. QED
  BY <1>2, <1>3, <1>4, <1>5 DEF RunsAreExact

------------------------------------------------------------------------------
(* Whatever the hosts, the profiles, the operations and the bounds: no      *)
(* command that changes a host is begun twice for one operation or after it *)
(* was cancelled, a run that answers with success ended its playbook and    *)
(* its check, the directory of a job stays only where the operation was cut *)
(* off from the host, and a prepared host needs no more preparing.          *)
THEOREM RemoteRunsAreExact ==
  ASSUME NEW hosts \in SUBSET Hosts
  PROVE  RemoteInit(hosts) /\ [][RemoteNext]_remoteVars => []RunsAreExact
<1>1. RemoteInit(hosts) => RemoteIInv
  BY RemoteStarts
<1>2. RemoteIInv /\ [RemoteNext]_remoteVars => RemoteIInv'
  BY RemoteKeeps
<1>3. RemoteIInv => RunsAreExact
  BY RemoteImplies
<1>4. QED
  BY <1>1, <1>2, <1>3, PTL
==============================================================================
