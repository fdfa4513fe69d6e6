-------------------------- MODULE ProxyMain_proof --------------------------
(***************************************************************************)
(* For any options, files, answers and paths: how often the version probe  *)
(* is tried, which handlers are there when the proxy listens, where a      *)
(* request goes, and which requests lose their body on the way.            *)
(*                                                                         *)
(* The invariant adds to TypeOK what main has done at each point: how many *)
(* requests the probe has sent (Counted), and what was registered so far   *)
(* (Registered).  For requests it adds that every handler is under the     *)
(* prefix its option names and that the client's target is the master's    *)
(* (Configured); what is left is about paths: how they are cleaned,        *)
(* matched, stripped and joined.                                           *)
(***************************************************************************)
EXTENDS ProxyMain, SequenceTheorems, FiniteSetTheorems, WellFoundedInduction, TLAPS

Serving == {m.handler : m \in mux}

\* What is never changed about the options, once read
OptsOK ==
  /\ opts.master \in Masters \cup {InCluster}
  /\ opts.oauth \in BOOLEAN
  /\ opts.api \in ApiPrefixes /\ opts.osapi \in OsApiPrefixes
  /\ opts.static \in StaticPrefixes

\* The retries are compared with the number of requests sent before.
Counted ==
  /\ phase \in {"options", "client"} => attempts = 0
  /\ phase = "probe" => attempts <= Retries
  /\ attempts \in 0..(Retries + 1)

ConfigOnly == Serving = IF opts.oauth THEN {"config"} ELSE {}

\* The API and the static files are both there or neither.
Proxied ==
  /\ "api" \in Serving <=> "static" \in Serving
  /\ "config" \in Serving <=> opts.oauth

Registered ==
  /\ phase \in {"options", "client", "probe", "waiting", "config"} => mux = {}
  /\ phase = "proxy" => ConfigOnly
  /\ phase = "osapi" => Proxied /\ Serving \cap {"osapi", "osapiNoCA"} = {}
  /\ phase \in {"listen", "listening"} =>
       Proxied /\ (Serving \cap {"osapi", "osapiNoCA"} # {} <=> opts.osapi # <<>>)

Typed == phase \in Phases /\ mux \subseteq [pattern : AllPatterns, handler : Handlers]

IInv == OptsOK /\ Counted /\ Registered /\ Typed

\* A registered handler is served, and nothing else is new.
LEMMA RouteServes ==
  ASSUME NEW M, NEW pattern, NEW handler
  PROVE  {m.handler : m \in M \cup {Route(pattern, handler)}}
           = {m.handler : m \in M} \cup {handler}
  <1> DEFINE r == Route(pattern, handler)
  <1>1. r.handler = handler
    BY DEF Route
  <1> HIDE DEF r
  <1>2. {m.handler : m \in M \cup {r}} = {m.handler : m \in M} \cup {r.handler}
    OBVIOUS
  <1> QED BY <1>1, <1>2 DEF r

LEMMA RouteTyped ==
  ASSUME NEW pattern \in AllPatterns, NEW handler \in Handlers
  PROVE  Route(pattern, handler) \in [pattern : AllPatterns, handler : Handlers]
  BY DEF Route

LEMMA InitHolds == Init => IInv
  BY RetriesAssumption DEF Init, IInv, OptsOK, Counted, Registered, Typed, Options, Phases

\* Nothing is registered before the configuration.
LEMMA ReadOptionsStep == IInv /\ ReadOptions => IInv'
  <1> SUFFICES ASSUME IInv, ReadOptions PROVE IInv'
    OBVIOUS
  <1>1. OptsOK'
    BY DEF IInv, OptsOK, ReadOptions
  <1>2. Counted' /\ Registered' /\ Typed'
    BY DEF IInv, Counted, Registered, Typed, ReadOptions, Phases
  <1> QED BY <1>1, <1>2 DEF IInv

LEMMA ProbeSteps == IInv /\ (NewClient \/ SendProbe \/ ProbeAnswered) => IInv'
  <1> SUFFICES ASSUME IInv, NewClient \/ SendProbe \/ ProbeAnswered PROVE IInv'
    OBVIOUS
  <1>1. UNCHANGED <<opts, mux>>
    BY DEF NewClient, SendProbe, ProbeAnswered
  <1>2. /\ phase \in {"client", "probe", "waiting"}
        /\ phase' \in {"probe", "waiting", "config", "exited"}
    BY DEF NewClient, SendProbe, ProbeAnswered
  <1>3. Counted'
    BY RetriesAssumption DEF IInv, Counted, NewClient, SendProbe, ProbeAnswered
  <1>4. OptsOK' /\ Registered' /\ Typed'
    BY <1>1, <1>2 DEF IInv, OptsOK, Registered, Typed, Phases
  <1> QED BY <1>3, <1>4 DEF IInv

LEMMA RegisterConfigJsStep == IInv /\ RegisterConfigJs => IInv'
  <1> SUFFICES ASSUME IInv, RegisterConfigJs PROVE IInv'
    OBVIOUS
  <1>1. mux = {} /\ phase' = "proxy" /\ UNCHANGED <<opts, attempts>>
    BY DEF IInv, Registered, RegisterConfigJs
  <1>2. mux' = IF opts.oauth THEN mux \cup {Route(ConfigJs, "config")} ELSE mux
    BY DEF RegisterConfigJs
  <1>3. Registered'
    <2>1. {m.handler : m \in mux \cup {Route(ConfigJs, "config")}} = Serving \cup {"config"}
      BY RouteServes DEF Serving
    <2>2. Serving = {}
      BY <1>1 DEF Serving
    <2>3. CASE opts.oauth
      BY <1>1, <1>2, <2>1, <2>2, <2>3 DEF Registered, ConfigOnly, Serving
    <2>4. CASE ~opts.oauth
      BY <1>1, <1>2, <2>2, <2>4 DEF Registered, ConfigOnly, Serving
    <2> QED BY <2>3, <2>4
  <1>4. Typed'
    BY <1>1, <1>2, RouteTyped DEF Typed, Phases, AllPatterns, Handlers
  <1>5. OptsOK' /\ Counted'
    BY <1>1 DEF IInv, OptsOK, Counted, RegisterConfigJs
  <1> QED BY <1>3, <1>4, <1>5 DEF IInv

\* Both patterns are registered, or the first and then main panics, or none.
LEMMA NewProxyServerStep == IInv /\ NewProxyServer => IInv'
  <1> SUFFICES ASSUME IInv, NewProxyServer PROVE IInv'
    OBVIOUS
  <1> DEFINE withApi == mux \cup {Route(opts.api, "api")}
             both    == withApi \cup {Route(opts.static, "static")}
  <1>1. phase = "proxy" /\ ConfigOnly /\ UNCHANGED <<opts, attempts>>
    BY DEF IInv, Registered, NewProxyServer
  <1>2. \/ phase' = "osapi" /\ mux' = mux
        \/ phase' = "exited" /\ mux' \in {mux, withApi}
        \/ phase' = "osapi" /\ mux' = both
    BY DEF NewProxyServer
  <1>3. {m.handler : m \in both} = Serving \cup {"api", "static"}
    <2>1. {m.handler : m \in withApi} = Serving \cup {"api"}
      BY RouteServes DEF Serving
    <2>2. {m.handler : m \in both} = {m.handler : m \in withApi} \cup {"static"}
      BY RouteServes
    <2> QED BY <2>1, <2>2
  <1>4. Registered'
    <2>1. CASE mux' = mux /\ phase' = "osapi"
      BY <1>1, <2>1 DEF Registered, ConfigOnly, Proxied, Serving, OptsOK, IInv
    <2>2. CASE mux' = both /\ phase' = "osapi"
      <3>1. Serving' = (IF opts.oauth THEN {"config"} ELSE {}) \cup {"api", "static"}
        BY <1>1, <1>3, <2>2 DEF ConfigOnly, Serving
      <3> QED BY <1>1, <2>2, <3>1 DEF Registered, Proxied
    <2>3. CASE phase' = "exited"
      BY <2>3 DEF Registered
    <2> QED BY <1>2, <2>1, <2>2, <2>3
  <1>5. both \subseteq [pattern : AllPatterns, handler : Handlers]
    BY RouteTyped DEF IInv, Typed, OptsOK, AllPatterns, Handlers
  <1>6. Typed'
    BY <1>2, <1>5 DEF IInv, Typed, Phases
  <1>7. OptsOK' /\ Counted'
    BY <1>1, <1>2 DEF IInv, OptsOK, Counted
  <1> QED BY <1>4, <1>6, <1>7 DEF IInv

LEMMA RegisterOsApiStep == IInv /\ RegisterOsApi => IInv'
  <1> SUFFICES ASSUME IInv, RegisterOsApi PROVE IInv'
    OBVIOUS
  <1>1. phase = "osapi" /\ Proxied /\ Serving \cap {"osapi", "osapiNoCA"} = {}
    BY DEF IInv, Registered, RegisterOsApi
  <1>2. phase' \in {"listen", "exited"} /\ UNCHANGED <<opts, attempts>>
    BY DEF RegisterOsApi
  <1>3. PICK handler \in {"osapi", "osapiNoCA"} :
          \/ opts.osapi = <<>> /\ mux' = mux
          \/ phase' = "exited" /\ mux' = mux
          \/ opts.osapi # <<>> /\ mux' = mux \cup {Route(opts.osapi, handler)}
    BY DEF RegisterOsApi
  <1>4. {m.handler : m \in mux \cup {Route(opts.osapi, handler)}} = Serving \cup {handler}
    BY RouteServes DEF Serving
  <1>5. Registered'
    <2>1. CASE opts.osapi = <<>> /\ mux' = mux
      BY <1>1, <1>2, <2>1 DEF Registered, Proxied, Serving
    <2>2. CASE phase' = "exited"
      BY <2>2 DEF Registered
    <2>3. CASE opts.osapi # <<>> /\ mux' = mux \cup {Route(opts.osapi, handler)}
      <3>1. Serving' = Serving \cup {handler}
        BY <1>4, <2>3 DEF Serving
      <3> QED BY <1>1, <1>2, <2>3, <3>1 DEF Registered, Proxied
    <2> QED BY <1>3, <2>1, <2>2, <2>3
  <1>6. Typed'
    BY <1>2, <1>3, RouteTyped DEF IInv, Typed, OptsOK, AllPatterns, Handlers, Phases
  <1>7. OptsOK' /\ Counted'
    BY <1>1, <1>2 DEF IInv, OptsOK, Counted
  <1> QED BY <1>5, <1>6, <1>7 DEF IInv

LEMMA OtherSteps == IInv /\ (Listen \/ Request \/ CaFileChanges \/ UNCHANGED vars) => IInv'
  <1> SUFFICES ASSUME IInv, Listen \/ Request \/ CaFileChanges \/ UNCHANGED vars PROVE IInv'
    OBVIOUS
  <1>1. UNCHANGED <<opts, attempts, mux>>
    BY DEF Listen, Request, CaFileChanges, vars
  <1>2. phase' = phase \/ (phase = "listen" /\ phase' \in {"listening", "exited"})
    BY DEF Listen, Request, CaFileChanges, vars
  <1> QED BY <1>1, <1>2 DEF IInv, OptsOK, Counted, Registered, Typed, Phases, ConfigOnly,
                            Proxied, Serving

LEMMA StepHolds == IInv /\ [Next]_vars => IInv'
  BY ReadOptionsStep, ProbeSteps, RegisterConfigJsStep, NewProxyServerStep,
     RegisterOsApiStep, OtherSteps DEF Next, Startup

\* What main has done at each point of its startup
THEOREM Invariant == Spec => []IInv
  BY InitHolds, StepHolds, PTL DEF Spec

\* The version probe is sent once and tried again at most Retries times, whatever
\* the API server answers, and only patterns of the options are registered.
THEOREM TypeCorrect == Spec => []TypeOK
  <1>1. IInv => TypeOK
    BY DEF IInv, OptsOK, Counted, Typed, TypeOK
  <1> QED BY Invariant, <1>1, PTL

\* main drops the error of NewProxyServer (main.go:118), and yet the proxy never
\* listens with the API and without the static files, or the other way round; what
\* was asked for otherwise is there.
THEOREM CompleteOrNothing == Spec => []RoutesTogether
  <1>1. IInv => RoutesTogether
    BY DEF IInv, Registered, Proxied, Serving, RoutesTogether
  <1> QED BY Invariant, <1>1, PTL

---------------------------------------------------------------------------
(* Paths *)

\* Everything paths are made of; the provers do not know that literals are strings.
Pieces == STRING \cup {"/", "api", "osapi", "osconsole", "config.js",
                        "buildConfigHooks", "generic"}

LEMMA MadeOfPieces ==
  ASSUME NEW q \in Seq(STRING)
  PROVE  q \in Seq(Pieces)
  BY DEF Pieces

LEMMA SlashEnds ==
  ASSUME NEW p \in Seq(Pieces)
  PROVE  /\ EndsInSlash(p) <=> p # <<>> /\ p[Len(p)] = "/"
         /\ StartsInSlash(p) <=> p # <<>> /\ p[1] = "/"
<1>1. Len(Slash) = 1 /\ Slash[1] = "/" /\ Slash \in Seq(Pieces) /\ Len(p) \in Nat
  <2>1. "/" \in Pieces
    BY DEF Pieces
  <2>2. Len(Slash) = 1 /\ Slash[1] = "/"
    BY DEF Slash
  <2>3. Slash \in Seq(Pieces)
    BY <2>1 DEF Slash
  <2>4. QED
    BY <2>2, <2>3
<1>2. ASSUME NEW q \in Seq(Pieces)
      PROVE  IsPrefix(Slash, q) <=> Len(q) # 0 /\ q[1] = "/"
  <2>1. CASE Len(q) = 0
    BY <1>1, <2>1 DEF IsPrefix
  <2>2. CASE Len(q) # 0
    <3>1. ASSUME NEW r \in Seq(Pieces), 1 \in 1..Len(r)
          PROVE  /\ SubSeq(r, 1, 1) \in Seq(Pieces) /\ Len(SubSeq(r, 1, 1)) = 1
                 /\ SubSeq(r, 1, 1)[1] = r[1]
      <4>1. \A i \in 1..1 : r[i] \in Pieces
        BY <3>1
      <4>2. /\ SubSeq(r, 1, 1) \in Seq(Pieces)
            /\ Len(SubSeq(r, 1, 1)) = IF 1 <= 1 THEN 1 - 1 + 1 ELSE 0
            /\ \A i \in 1..1 - 1 + 1 : SubSeq(r, 1, 1)[i] = r[1 + i - 1]
        BY <4>1, SubSeqProperties
      <4>3. QED
        BY <4>2
    <3> DEFINE x == SubSeq(Slash, 1, 1)
               y == SubSeq(q, 1, 1)
    <3>2. /\ x \in Seq(Pieces) /\ Len(x) = 1 /\ x[1] = "/"
          /\ y \in Seq(Pieces) /\ Len(y) = 1 /\ y[1] = q[1]
      <4>1. 1 \in 1..Len(Slash) /\ 1 \in 1..Len(q)
        BY <1>1, <2>2
      <4>2. x \in Seq(Pieces) /\ Len(x) = 1 /\ x[1] = Slash[1]
        BY <1>1, <3>1, <4>1
      <4>3. y \in Seq(Pieces) /\ Len(y) = 1 /\ y[1] = q[1]
        BY <3>1, <4>1
      <4>4. QED
        BY <1>1, <4>2, <4>3
    <3>3. IsPrefix(Slash, q) <=> 1 <= Len(q) /\ x = y
      BY <1>1 DEF IsPrefix
    <3> HIDE DEF x, y
    <3>4. x = y <=> x[1] = y[1]
      BY <3>2, SeqEqual
    <3>5. QED
      BY <2>2, <3>2, <3>3, <3>4
  <2>3. QED
    BY <2>1, <2>2
<1>3. Reverse(Slash) = Slash
  <2>1. Reverse(Slash) = [i \in 1..1 |-> "/"]
    BY <1>1 DEF Reverse
  <2>2. QED
    BY <2>1 DEF Slash
<1>4. /\ Reverse(p) \in Seq(Pieces) /\ Len(Reverse(p)) = Len(p)
      /\ Len(p) # 0 => Reverse(p)[1] = p[Len(p)]
  <2>1. \A i \in 1..Len(p) : p[(Len(p) - i) + 1] \in Pieces
    <3>1. ASSUME NEW i \in 1..Len(p) PROVE p[(Len(p) - i) + 1] \in Pieces
      <4>1. (Len(p) - i) + 1 \in 1..Len(p)
        BY <1>1
      <4>2. QED
        BY <4>1
    <3>2. QED
      BY <3>1
  <2>2. Reverse(p) \in [1..Len(p) -> Pieces]
    BY <2>1 DEF Reverse
  <2>3. Reverse(p) \in Seq(Pieces) /\ Len(Reverse(p)) = Len(p)
    BY <1>1, <2>2
  <2>4. Len(p) # 0 => Reverse(p)[1] = p[(Len(p) - 1) + 1]
    BY <1>1 DEF Reverse
  <2>5. QED
    BY <1>1, <2>3, <2>4
<1>5. Len(p) # 0 <=> p # <<>>
  BY EmptySeq
<1>6. QED
  BY <1>2, <1>3, <1>4, <1>5 DEF EndsInSlash, StartsInSlash, IsSuffix

\* Joining a path that does not end in a slash, or one that does, with one that does
\* not start with one
LEMMA Joins ==
  ASSUME NEW a \in Seq(Pieces), NEW b \in Seq(Pieces), ~StartsInSlash(b)
  PROVE  SingleJoiningSlash(a, b) = IF EndsInSlash(a) THEN a \o b ELSE a \o Slash \o b
  BY DEF SingleJoiningSlash

\* A set of numbers that is not empty has a least one.
LEMMA LeastNumber ==
  ASSUME NEW T \in SUBSET Nat, T # {}
  PROVE  \E n \in T : \A m \in T : n <= m
<1>1. PICK x \in T : \A y \in T : <<y, x>> \notin OpToRel(<, Nat)
  BY NatLessThanWellFounded, WFMin
<1>2. OpToRel(<, Nat) = {ss \in Nat \X Nat : ss[1] < ss[2]}
  BY DEF OpToRel
<1>3. ASSUME NEW y \in T PROVE x <= y
  <2>1. <<y, x>> \in Nat \X Nat /\ <<y, x>>[1] = y /\ <<y, x>>[2] = x
    OBVIOUS
  <2>2. ~(y < x)
    BY <1>1, <1>2, <2>1
  <2>3. x \in Nat /\ y \in Nat
    OBVIOUS
  <2>4. QED
    BY <2>2, <2>3
<1>4. QED
  BY <1>3

\* What SubSeq takes from a sequence that was put together
LEMMA BehindRoot ==
  ASSUME NEW a \in Seq(Pieces), NEW b \in Seq(Pieces)
  PROVE  /\ a \o b \in Seq(Pieces) /\ Len(a \o b) = Len(a) + Len(b)
         /\ SubSeq(a \o b, Len(a) + 1, Len(a \o b)) = b
         /\ IsPrefix(a, a \o b)
<1>1. /\ a \o b \in Seq(Pieces) /\ Len(a \o b) = Len(a) + Len(b)
      /\ Len(a) \in Nat /\ Len(b) \in Nat
      /\ \A i \in 1..Len(a) + Len(b) :
           (a \o b)[i] = IF i <= Len(a) THEN a[i] ELSE b[i - Len(a)]
  BY ConcatProperties
<1>2. SubSeq(a \o b, Len(a) + 1, Len(a \o b)) = b
  <2> DEFINE c == SubSeq(a \o b, Len(a) + 1, Len(a) + Len(b))
  <2>1. /\ c \in Seq(Pieces) /\ Len(c) = Len(b)
        /\ \A i \in 1..Len(b) : c[i] = (a \o b)[Len(a) + i]
    <3>1. \A i \in (Len(a) + 1)..(Len(a) + Len(b)) : (a \o b)[i] \in Pieces
      BY <1>1
    <3>2. /\ c \in Seq(Pieces)
          /\ Len(c) = IF Len(a) + 1 <= Len(a) + Len(b)
                      THEN Len(a) + Len(b) - (Len(a) + 1) + 1 ELSE 0
          /\ \A i \in 1..Len(a) + Len(b) - (Len(a) + 1) + 1 :
               c[i] = (a \o b)[Len(a) + 1 + i - 1]
      BY <1>1, <3>1, SubSeqProperties
    <3>3. QED
      BY <1>1, <3>2
  <2>2. \A i \in 1..Len(b) : c[i] = b[i]
    BY <1>1, <2>1
  <2> HIDE DEF c
  <2>3. c = b
    BY <2>1, <2>2, SeqEqual
  <2>4. QED
    BY <1>1, <2>3 DEF c
<1>3. IsPrefix(a, a \o b)
  <2>1. SubSeq(a, 1, Len(a)) = a
    BY SubSeqFull
  <2> DEFINE c == SubSeq(a \o b, 1, Len(a))
  <2>2. c = a
    <3>1. /\ c \in Seq(Pieces) /\ Len(c) = Len(a)
          /\ \A i \in 1..Len(a) : c[i] = (a \o b)[i]
      <4>1. \A i \in 1..Len(a) : (a \o b)[i] \in Pieces
        BY <1>1
      <4>2. /\ c \in Seq(Pieces) /\ Len(c) = IF 1 <= Len(a) THEN Len(a) - 1 + 1 ELSE 0
            /\ \A i \in 1..Len(a) - 1 + 1 : c[i] = (a \o b)[1 + i - 1]
        BY <1>1, <4>1, SubSeqProperties
      <4>3. QED
        BY <1>1, <4>2
    <3>2. \A i \in 1..Len(a) : c[i] = a[i]
      BY <1>1, <3>1
    <3> HIDE DEF c
    <3>3. QED
      BY <3>1, <3>2, SeqEqual
  <2>3. QED
    BY <1>1, <2>1, <2>2 DEF IsPrefix
<1>4. QED
  BY <1>1, <1>2, <1>3

LEMMA PrefixSplits ==
  ASSUME NEW a \in Seq(Pieces), NEW p \in Seq(Pieces), IsPrefix(a, p)
  PROVE  LET b == SubSeq(p, Len(a) + 1, Len(p)) IN
         /\ b \in Seq(Pieces) /\ Len(b) = Len(p) - Len(a) /\ Len(a) <= Len(p)
         /\ \A i \in 1..Len(a) : a[i] = p[i]
         /\ \A i \in 1..Len(b) : b[i] = p[Len(a) + i]
         /\ p = a \o b
<1> DEFINE b == SubSeq(p, Len(a) + 1, Len(p))
           c == SubSeq(p, 1, Len(a))
<1>1. Len(a) \in Nat /\ Len(p) \in Nat /\ Len(a) <= Len(p) /\ a = c
  <2>1. SubSeq(a, 1, Len(a)) = a
    BY SubSeqFull
  <2>2. QED
    BY <2>1 DEF IsPrefix
<1>2. /\ b \in Seq(Pieces) /\ Len(b) = Len(p) - Len(a)
      /\ \A i \in 1..Len(b) : b[i] = p[Len(a) + i]
  <2>1. \A i \in (Len(a) + 1)..Len(p) : p[i] \in Pieces
    BY <1>1
  <2>2. /\ b \in Seq(Pieces)
        /\ Len(b) = IF Len(a) + 1 <= Len(p) THEN Len(p) - (Len(a) + 1) + 1 ELSE 0
        /\ \A i \in 1..Len(p) - (Len(a) + 1) + 1 : b[i] = p[Len(a) + 1 + i - 1]
    BY <1>1, <2>1, SubSeqProperties
  <2>3. QED
    BY <1>1, <2>2
<1>3. \A i \in 1..Len(a) : a[i] = p[i]
  <2>1. \A i \in 1..Len(a) : p[i] \in Pieces
    BY <1>1
  <2>2. \A i \in 1..Len(a) - 1 + 1 : c[i] = p[1 + i - 1]
    BY <1>1, <2>1, SubSeqProperties
  <2> HIDE DEF c
  <2>3. QED
    BY <1>1, <2>2
<1> HIDE DEF b
<1>4. p = a \o b
  <2>1. /\ a \o b \in Seq(Pieces) /\ Len(a \o b) = Len(a) + Len(b)
        /\ \A i \in 1..Len(a) + Len(b) :
             (a \o b)[i] = IF i <= Len(a) THEN a[i] ELSE b[i - Len(a)]
    BY <1>2, ConcatProperties
  <2>2. Len(a) + Len(b) = Len(p)
    BY <1>1, <1>2
  <2>3. ASSUME NEW i \in 1..Len(p) PROVE p[i] = (a \o b)[i]
    <3>1. CASE i <= Len(a)
      BY <1>1, <1>3, <2>1, <2>2, <3>1
    <3>2. CASE ~(i <= Len(a))
      <4>1. i - Len(a) \in 1..Len(b) /\ Len(a) + (i - Len(a)) = i
        BY <1>1, <2>2, <3>2
      <4>2. QED
        BY <1>2, <2>1, <2>2, <3>2, <4>1
    <3>3. QED
      BY <3>1, <3>2
  <2>4. QED
    BY <2>1, <2>2, <2>3, SeqEqual
<1>5. QED
  BY <1>1, <1>2, <1>3, <1>4 DEF b

\* Options after they are read, the client, and the table of handlers
Configured ==
  /\ \A m \in mux : /\ m.pattern \in Seq(STRING) \/ m.pattern = ConfigJs
                    /\ m.handler \in Handlers
                    /\ m.handler = "api" => m.pattern = opts.api
                    /\ m.handler \in {"osapi", "osapiNoCA"} => m.pattern = opts.osapi
  /\ phase \notin {"options", "client", "exited"} => target = ClientUrl(opts.master)
  /\ answer # NoAnswer =>
       phase = "listening" /\ \E path \in Paths : answer = Served(path)

\* What StripPrefix leaves of a path does not start with a slash, and the prefix and
\* it make the path.
LEMMA RestOfPath ==
  ASSUME Configured, NEW path \in Paths, Clean(path), NEW route \in Handler(path),
         route.handler \in {"api", "osapi", "osapiNoCA"}
  PROVE  LET rest == Stripped(route.pattern, path) IN
         /\ route.pattern = IF route.handler = "api" THEN opts.api ELSE opts.osapi
         /\ rest \in Seq(Pieces) /\ path = route.pattern \o rest
         /\ ~StartsInSlash(rest)
         /\ rest # <<>> => path[Len(route.pattern)] = "/" /\ Len(route.pattern) \in 1..Len(path)
         /\ \A i \in 1..Len(rest) : rest[i] = path[Len(route.pattern) + i]
         /\ Len(rest) = Len(path) - Len(route.pattern) /\ Len(route.pattern) \in Nat
<1> DEFINE rest == Stripped(route.pattern, path)
           pat  == route.pattern
<1>1. route \in mux /\ PathMatch(pat, path)
  BY DEF Handler, Implicit, Route
<1>2. pat \in Seq(Pieces) /\ path \in Seq(Pieces)
  <2>1. ConfigJs \in Seq(Pieces)
    BY DEF ConfigJs, Pieces
  <2>2. QED
    BY <1>1, <2>1, MadeOfPieces, PathsAssumption DEF Configured
<1>3. IsPrefix(pat, path)
  BY <1>1 DEF PathMatch, IsPrefix
<1>4. /\ rest \in Seq(Pieces) /\ Len(rest) = Len(path) - Len(pat) /\ Len(pat) <= Len(path)
      /\ \A i \in 1..Len(rest) : rest[i] = path[Len(pat) + i]
      /\ path = pat \o rest /\ \A i \in 1..Len(pat) : pat[i] = path[i]
  BY <1>2, <1>3, PrefixSplits DEF Stripped
<1> HIDE DEF rest, pat
<1>5. Len(rest) \in Nat /\ Len(pat) \in Nat /\ Len(path) \in Nat
  BY <1>2, <1>4
<1>6. rest # <<>> => Len(rest) # 0
  BY <1>4, EmptySeq
<1>7. ASSUME Len(rest) # 0
      PROVE  path[Len(pat)] = "/" /\ Len(pat) \in 1..Len(path) /\ rest[1] # "/"
  <2>1. pat # path
    BY <1>4, <1>5, <1>7
  <2>2. EndsInSlash(pat)
    BY <1>1, <2>1 DEF PathMatch
  <2>3. pat # <<>> /\ pat[Len(pat)] = "/"
    BY <1>2, <2>2, SlashEnds
  <2>4. Len(pat) \in 1..Len(pat)
    BY <1>2, <1>5, <2>3, EmptySeq
  <2>5. path[Len(pat)] = "/"
    BY <1>4, <2>3, <2>4
  <2>6. Len(pat) \in 1..(Len(path) - 1)
    BY <1>4, <1>5, <1>7, <2>4
  <2>7. path[Len(pat) + 1] # "/"
    BY <2>5, <2>6 DEF Clean
  <2>8. 1 \in 1..Len(rest)
    BY <1>5, <1>7
  <2>9. QED
    BY <1>4, <1>5, <2>5, <2>6, <2>7, <2>8
<1>8. ~StartsInSlash(rest)
  BY <1>4, <1>6, <1>7, SlashEnds
<1>9. pat = IF route.handler = "api" THEN opts.api ELSE opts.osapi
  BY <1>1 DEF Configured, pat
<1>10. QED
  BY <1>4, <1>5, <1>6, <1>7, <1>8, <1>9 DEF rest, pat

\* What the director makes of the path: the target's, the slash and the rest
LEMMA ApiJoined ==
  ASSUME NEW p \in Seq(Pieces), NEW rest \in Seq(Pieces), ~StartsInSlash(rest)
  PROVE  LET own == IF EndsInSlash(p) THEN Front(p) ELSE p
             root == own \o <<"/", "api", "/">>
         IN /\ SingleJoiningSlash(SingleJoiningSlash(p, ApiPath), rest) = root \o rest
            /\ root \in Seq(Pieces)
<1> DEFINE own == IF EndsInSlash(p) THEN Front(p) ELSE p
           root == own \o <<"/", "api", "/">>
<1>1. /\ Slash \in Seq(Pieces) /\ <<"api">> \in Seq(Pieces) /\ ApiPath \in Seq(Pieces)
      /\ <<"/", "api", "/">> \in Seq(Pieces)
      /\ ApiPath = Slash \o <<"api">> /\ Tail(ApiPath) = <<"api">>
      /\ <<"/", "api", "/">> = ApiPath \o Slash
  BY DEF Slash, ApiPath, Pieces
<1>2. StartsInSlash(ApiPath) /\ ~EndsInSlash(ApiPath)
  <2>1. Len(ApiPath) = 2 /\ ApiPath # <<>> /\ ApiPath[1] = "/" /\ ApiPath[2] = "api"
    BY DEF ApiPath
  <2>2. QED
    BY <1>1, <2>1, SlashEnds
<1>3. SingleJoiningSlash(p, ApiPath) = own \o ApiPath /\ own \in Seq(Pieces)
  <2>1. CASE EndsInSlash(p)
    <3>1. p # <<>> /\ p[Len(p)] = "/" /\ Len(p) \in Nat /\ Len(p) # 0
      BY <2>1, SlashEnds, EmptySeq
    <3>2. Front(p) \in Seq(Pieces) /\ p = Front(p) \o Slash
      <4> DEFINE f == SubSeq(p, 1, Len(p) - 1)
      <4>1. /\ f \in Seq(Pieces) /\ Len(f) = Len(p) - 1
            /\ \A i \in 1..Len(f) : f[i] = p[i]
        <5>1. \A i \in 1..(Len(p) - 1) : p[i] \in Pieces
          BY <3>1
        <5>2. /\ f \in Seq(Pieces)
              /\ Len(f) = IF 1 <= Len(p) - 1 THEN Len(p) - 1 - 1 + 1 ELSE 0
              /\ \A i \in 1..Len(p) - 1 - 1 + 1 : f[i] = p[1 + i - 1]
          BY <3>1, <5>1, SubSeqProperties
        <5>3. Len(p) - 1 - 1 + 1 = Len(p) - 1 /\ Len(p) - 1 \in Nat
          BY <3>1
        <5>4. Len(f) = Len(p) - 1
          BY <3>1, <5>2, <5>3
        <5> HIDE DEF f
        <5>5. ASSUME NEW i \in 1..Len(f) PROVE f[i] = p[i]
          <6>1. i \in 1..Len(p) - 1 - 1 + 1 /\ 1 + i - 1 = i
            BY <5>3, <5>4
          <6>2. f[i] = p[1 + i - 1]
            BY <5>2, <6>1
          <6>3. QED
            BY <6>1, <6>2
        <5>6. QED
          BY <5>2, <5>4, <5>5
      <4> HIDE DEF f
      <4>2. /\ f \o Slash \in Seq(Pieces) /\ Len(f \o Slash) = Len(f) + Len(Slash)
            /\ \A i \in 1..Len(f) + Len(Slash) :
                 (f \o Slash)[i] = IF i <= Len(f) THEN f[i] ELSE Slash[i - Len(f)]
        BY <1>1, <4>1, ConcatProperties
      <4>3. Len(Slash) = 1 /\ Slash[1] = "/"
        BY DEF Slash
      <4>4. Len(f \o Slash) = Len(p)
        BY <3>1, <4>1, <4>2, <4>3
      <4>5. ASSUME NEW i \in 1..Len(p) PROVE p[i] = (f \o Slash)[i]
        <5>1. CASE i = Len(p)
          <6>1. ~(i <= Len(f)) /\ i - Len(f) = 1 /\ i \in 1..Len(f) + Len(Slash)
            BY <3>1, <4>1, <4>3, <5>1
          <6>2. QED
            BY <3>1, <4>2, <4>3, <5>1, <6>1
        <5>2. CASE i # Len(p)
          <6>1. i \in 1..Len(f) /\ i <= Len(f) /\ i \in 1..Len(f) + Len(Slash)
            BY <3>1, <4>1, <4>3, <5>2
          <6>2. QED
            BY <4>1, <4>2, <6>1
        <5>3. QED
          BY <5>1, <5>2
      <4>6. p = f \o Slash
        BY <4>2, <4>4, <4>5, SeqEqual
      <4>7. QED
        BY <4>1, <4>6 DEF f, Front
    <3>3. SingleJoiningSlash(p, ApiPath) = p \o <<"api">>
      BY <1>1, <1>2, <2>1 DEF SingleJoiningSlash
    <3>4. (Front(p) \o Slash) \o <<"api">> = Front(p) \o (Slash \o <<"api">>)
      BY <1>1, <3>2, ConcatAssociative
    <3>5. own = Front(p)
      BY <2>1
    <3> HIDE DEF own
    <3>6. p \o <<"api">> = own \o ApiPath
      BY <1>1, <3>2, <3>4, <3>5
    <3>7. QED
      BY <3>2, <3>3, <3>5, <3>6
  <2>2. CASE ~EndsInSlash(p)
    BY <1>2, <2>2 DEF SingleJoiningSlash
  <2>3. QED
    BY <2>1, <2>2
<1> HIDE DEF own
<1>4. own \o ApiPath \in Seq(Pieces) /\ ~EndsInSlash(own \o ApiPath)
  <2>1. /\ own \o ApiPath \in Seq(Pieces) /\ Len(own \o ApiPath) = Len(own) + Len(ApiPath)
        /\ \A i \in 1..Len(own) + Len(ApiPath) :
             (own \o ApiPath)[i] = IF i <= Len(own) THEN own[i] ELSE ApiPath[i - Len(own)]
    BY <1>1, <1>3, ConcatProperties
  <2>2. Len(ApiPath) = 2 /\ ApiPath[2] = "api" /\ Len(own) \in Nat
    BY <1>3 DEF ApiPath
  <2>3. (own \o ApiPath)[Len(own \o ApiPath)] = "api"
    <3>1. /\ Len(own) + 2 \in 1..Len(own) + Len(ApiPath) /\ ~(Len(own) + 2 <= Len(own))
          /\ (Len(own) + 2) - Len(own) = 2
      BY <2>2
    <3>2. QED
      BY <2>1, <2>2, <3>1
  <2>4. QED
    BY <2>1, <2>3, SlashEnds
<1>5. SingleJoiningSlash(own \o ApiPath, rest) = ((own \o ApiPath) \o Slash) \o rest
  BY <1>4, Joins
<1>6. (own \o ApiPath) \o Slash = root
  <2>1. (own \o ApiPath) \o Slash = own \o (ApiPath \o Slash)
    BY <1>1, <1>3, ConcatAssociative
  <2>2. QED
    BY <1>1, <2>1, Zenon
<1>7. root \in Seq(Pieces)
  BY <1>1, <1>3, ConcatProperties
<1>8. QED
  BY <1>3, <1>5, <1>6, <1>7 DEF own

LEMMA OsApiJoined ==
  ASSUME NEW rest \in Seq(Pieces), ~StartsInSlash(rest)
  PROVE  /\ SingleJoiningSlash(OsApiPath, rest) = OsApiPath \o rest
         /\ OsApiPath \in Seq(Pieces) /\ Len(OsApiPath) = 3
<1>1. OsApiPath \in Seq(Pieces) /\ Len(OsApiPath) = 3 /\ OsApiPath[3] = "/" /\ OsApiPath # <<>>
  BY DEF OsApiPath, Pieces
<1>2. EndsInSlash(OsApiPath)
  BY <1>1, SlashEnds
<1>3. QED
  BY <1>1, <1>2, Joins

\* Where a request goes, and that its path is put together of the target's root and of
\* what followed the prefix
LEMMA Goes ==
  ASSUME Configured, OptsOK, phase = "listening", NEW path \in Paths,
         Served(path).kind = "upstream"
  PROVE  LET a == Served(path)
             root == IF a.via = "osapi" THEN OsApiPath
                     ELSE (IF EndsInSlash(opts.master.path) THEN Front(opts.master.path)
                           ELSE opts.master.path) \o <<"/", "api", "/">>
         IN /\ a.via \in {"api", "osapi"}
            /\ a.scheme = target.scheme /\ a.host = target.host
            /\ Clean(path) /\ root \in Seq(Pieces)
            /\ \E route \in Handler(path) :
                 LET rest == Stripped(route.pattern, path) IN
                 /\ route.handler \in {"api", "osapi", "osapiNoCA"}
                 /\ a.via = "api" <=> route.handler = "api"
                 /\ a.path = root \o rest /\ a.asked = path
                 /\ a.body = IF a.via = "api" THEN TRUE ELSE ~IsGenericWebhook(rest)
<1> DEFINE a == Served(path)
           route == CHOOSE m \in Handler(path) : TRUE
           rest == Stripped(route.pattern, path)
           m == opts.master
<1>0. \A kind, p, asked : Local(kind, p, asked).kind = kind
  BY DEF Local, NoAnswer
<1>1. Clean(path) /\ Handler(path) # {}
  <2>1. CASE ~Clean(path)
    <3>1. Served(path) = Local("redirect", path, path)
      BY <2>1 DEF Served
    <3>2. QED
      BY <1>0, <3>1
  <2>2. CASE Clean(path) /\ Handler(path) = {}
    <3>1. Served(path) = Local("notFound", path, path)
      BY <2>2 DEF Served
    <3>2. QED
      BY <1>0, <3>1
  <2>3. QED
    BY <2>1, <2>2
<1>2. route \in Handler(path)
  BY <1>1
<1>3. a = CASE route.handler = "redirect" -> Local("redirect", path \o Slash, path)
            [] route.handler = "config"   -> Local("config", path, path)
            [] route.handler = "static"   -> Local("file", rest, path)
            [] route.handler = "api" ->
                 Forwarded(ApiTarget(opts.master), rest, path, "api", TRUE)
            [] route.handler \in {"osapi", "osapiNoCA"} ->
                 Forwarded(OsApiTarget(opts.master), rest, path, "osapi",
                           ~IsGenericWebhook(rest))
  BY <1>1 DEF Served
<1>4. \A kind, p, asked : Local(kind, p, asked).kind = kind
  BY <1>0
<1> HIDE DEF a, route, rest
<1>5. a.kind = "upstream"
  BY DEF a
<1>6. route.handler \in {"redirect", "config", "static", "api", "osapi", "osapiNoCA"}
  <2>1. route \in mux \cup Implicit
    BY <1>2 DEF Handler
  <2>2. QED
    BY <2>1 DEF Configured, Implicit, Route, Handlers
<1>7. \/ route.handler = "api" /\ a = Forwarded(ApiTarget(m), rest, path, "api", TRUE)
      \/ /\ route.handler \in {"osapi", "osapiNoCA"}
         /\ a = Forwarded(OsApiTarget(m), rest, path, "osapi", ~IsGenericWebhook(rest))
  BY <1>3, <1>4, <1>5, <1>6
<1>8. rest \in Seq(Pieces) /\ ~StartsInSlash(rest)
  BY <1>1, <1>2, <1>7, RestOfPath DEF rest
<1>9. m \in [scheme : Schemes, host : Seq(STRING), path : Seq(STRING)] \/ m = InCluster
  BY MastersAssumption DEF OptsOK
<1>10. /\ DOMAIN m = {"scheme", "host", "path"} /\ m.path \in Seq(Pieces)
  <2>1. CASE m \in [scheme : Schemes, host : Seq(STRING), path : Seq(STRING)]
    <3>1. DOMAIN m = {"scheme", "host", "path"} /\ m.path \in Seq(STRING)
      BY <2>1
    <3>2. QED
      BY <3>1, MadeOfPieces
  <2>2. CASE m = InCluster
    <3>1. DOMAIN m = {"scheme", "host", "path"} /\ m.path = <<>>
      BY <2>2 DEF InCluster
    <3>2. QED
      BY <3>1, EmptySeq
  <2>3. QED
    BY <1>9, <2>1, <2>2
<1>11. target = ClientUrl(m)
  BY DEF Configured
<1>12. CASE route.handler = "api" /\ a = Forwarded(ApiTarget(m), rest, path, "api", TRUE)
  <2> DEFINE url == ApiTarget(m)
             joined == [m EXCEPT !.path = SingleJoiningSlash(@, ApiPath)]
  <2>1. /\ Reachable(url) /\ a.via = "api" /\ a.scheme = url.scheme /\ a.host = url.host
        /\ a.path = SingleJoiningSlash(url.path, rest) /\ a.asked = path /\ a.body = TRUE
    BY <1>5, <1>12 DEF Forwarded
  <2>2. joined.scheme = m.scheme /\ joined.host = m.host
        /\ joined.path = SingleJoiningSlash(m.path, ApiPath)
    BY <1>10
  <2>3. m.scheme # "" /\ url = joined
    BY <2>1, <2>2 DEF Reachable, ApiTarget, Parsed
  <2>4. target = m
    BY <1>11, <2>3 DEF ClientUrl
  <2>5. a.path = ((IF EndsInSlash(m.path) THEN Front(m.path) ELSE m.path)
                   \o <<"/", "api", "/">>) \o rest
        /\ ((IF EndsInSlash(m.path) THEN Front(m.path) ELSE m.path)
             \o <<"/", "api", "/">>) \in Seq(Pieces)
    <3>1. url.path = SingleJoiningSlash(m.path, ApiPath)
      BY <2>2, <2>3
    <3>2. a.path = SingleJoiningSlash(SingleJoiningSlash(m.path, ApiPath), rest)
      BY <2>1, <3>1
    <3>3. QED
      BY <1>8, <1>10, <3>2, ApiJoined, Zenon
  <2>6. QED
    BY <1>1, <1>2, <1>12, <2>1, <2>2, <2>3, <2>4, <2>5 DEF a, rest
<1>13. CASE /\ route.handler \in {"osapi", "osapiNoCA"}
            /\ a = Forwarded(OsApiTarget(m), rest, path, "osapi", ~IsGenericWebhook(rest))
  <2> DEFINE url == OsApiTarget(m)
  <2>1. /\ Reachable(url) /\ a.via = "osapi" /\ a.scheme = url.scheme /\ a.host = url.host
        /\ a.path = SingleJoiningSlash(url.path, rest) /\ a.asked = path
        /\ a.body = ~IsGenericWebhook(rest)
    BY <1>5, <1>13 DEF Forwarded
  <2>2. /\ url.scheme = m.scheme /\ m.scheme # "" /\ url.host = m.host
        /\ url.path = OsApiPath
    BY <1>10, <2>1 DEF Reachable, OsApiTarget, Parsed
  <2>3. target = m
    BY <1>11, <2>2 DEF ClientUrl
  <2>4. a.path = OsApiPath \o rest /\ OsApiPath \in Seq(Pieces)
    BY <1>8, <2>1, <2>2, OsApiJoined
  <2>5. QED
    BY <1>1, <1>2, <1>13, <2>1, <2>2, <2>3, <2>4 DEF a, rest
<1>14. QED
  BY <1>7, <1>12, <1>13

\* To the right server, and to the right path
LEMMA GoesStraight ==
  ASSUME Configured, OptsOK, phase = "listening", NEW path \in Paths, answer = Served(path)
  PROVE  ProxiedStraightThrough
<1> SUFFICES ASSUME answer.kind = "upstream" PROVE ProxiedStraightThrough
  BY DEF ProxiedStraightThrough
<1> DEFINE prefix == IF answer.via = "api" THEN opts.api ELSE opts.osapi
           root == IF answer.via = "osapi" THEN OsApiPath
                   ELSE (IF EndsInSlash(opts.master.path) THEN Front(opts.master.path)
                         ELSE opts.master.path) \o <<"/", "api", "/">>
<1>1. PICK route \in Handler(path) :
        LET rest == Stripped(route.pattern, path) IN
        /\ route.handler \in {"api", "osapi", "osapiNoCA"}
        /\ answer.via = "api" <=> route.handler = "api"
        /\ answer.path = root \o rest /\ answer.asked = path
  BY Goes
<1>2. /\ answer.via \in {"api", "osapi"} /\ Clean(path) /\ root \in Seq(Pieces)
      /\ answer.scheme = target.scheme /\ answer.host = target.host
  BY Goes
<1> DEFINE rest == Stripped(route.pattern, path)
<1>3. route.pattern = prefix /\ rest \in Seq(Pieces) /\ path = route.pattern \o rest
  BY <1>1, <1>2, RestOfPath
<1> HIDE DEF rest, root, prefix
<1>4. answer.path = root \o rest /\ answer.asked = path
  BY <1>1 DEF rest
<1>5. /\ SubSeq(answer.path, Len(root) + 1, Len(answer.path)) = rest
      /\ IsPrefix(root, answer.path)
  BY <1>2, <1>3, <1>4, BehindRoot
<1>6. QED
  BY <1>2, <1>3, <1>4, <1>5 DEF ProxiedStraightThrough, root, prefix

\* Sets with few members
LEMMA Few ==
  /\ IsFiniteSet({2, 4, 6, 8}) /\ Cardinality({2, 4, 6, 8}) = 4
  /\ IsFiniteSet({2, 4, 6}) /\ Cardinality({2, 4, 6}) = 3
  /\ IsFiniteSet({2, 4, 6, 8, 10}) /\ Cardinality({2, 4, 6, 8, 10}) = 5
<1>1. IsFiniteSet({}) /\ Cardinality({}) = 0
  BY FS_EmptySet
<1>2. IsFiniteSet({2}) /\ Cardinality({2}) = 1
  BY FS_Singleton
<1>3. IsFiniteSet({2} \cup {4}) /\ Cardinality({2} \cup {4}) = 2
  BY <1>2, FS_AddElement
<1>4. {2} \cup {4} = {2, 4}
  OBVIOUS
<1>5. IsFiniteSet({2, 4} \cup {6}) /\ Cardinality({2, 4} \cup {6}) = 3
  <2>1. 6 \notin {2, 4}
    OBVIOUS
  <2>2. QED
    BY <1>3, <1>4, <2>1, FS_AddElement
<1>6. {2, 4} \cup {6} = {2, 4, 6}
  OBVIOUS
<1>7. IsFiniteSet({2, 4, 6} \cup {8}) /\ Cardinality({2, 4, 6} \cup {8}) = 4
  <2>1. 8 \notin {2, 4, 6}
    OBVIOUS
  <2>2. QED
    BY <1>5, <1>6, <2>1, FS_AddElement
<1>8. {2, 4, 6} \cup {8} = {2, 4, 6, 8}
  OBVIOUS
<1>9. IsFiniteSet({2, 4, 6, 8} \cup {10}) /\ Cardinality({2, 4, 6, 8} \cup {10}) = 5
  <2>1. 10 \notin {2, 4, 6, 8}
    OBVIOUS
  <2>2. QED
    BY <1>7, <1>8, <2>1, FS_AddElement
<1>10. {2, 4, 6, 8} \cup {10} = {2, 4, 6, 8, 10}
  OBVIOUS
<1>11. QED
  BY <1>5, <1>6, <1>7, <1>8, <1>9, <1>10

\* Four slashes at even places: there are eight or nine pieces.
LEMMA NinePieces ==
  ASSUME NEW n \in Nat, Cardinality({i \in 1..n : i % 2 = 0}) = 4
  PROVE  n \in {8, 9}
<1> DEFINE E == {i \in 1..n : i % 2 = 0}
<1>1. IsFiniteSet(E)
  <2>1. IsFiniteSet(1..n)
    BY FS_Interval
  <2>2. QED
    BY <2>1, FS_Subset
<1>2. CASE n < 8
  <2>1. E \subseteq {2, 4, 6}
    <3>1. n \in 0..7
      BY <1>2
    <3>2. \A i \in 1..7 : i % 2 = 0 => i \in {2, 4, 6}
      OBVIOUS
    <3>3. E \subseteq 1..7
      BY <3>1
    <3>4. QED
      BY <3>2, <3>3
  <2> HIDE DEF E
  <2> DEFINE three == {2, 4, 6}
  <2>2. E \in SUBSET three /\ IsFiniteSet(three) /\ Cardinality(three) = 3
    BY <2>1, Few
  <2> HIDE DEF three
  <2>3. Cardinality(E) <= 3
    BY <2>2, FS_Subset
  <2>4. QED
    BY <2>3 DEF E
<1>3. CASE n > 9
  <2>1. {2, 4, 6, 8, 10} \subseteq E
    <3>1. /\ 2 % 2 = 0 /\ 4 % 2 = 0 /\ 6 % 2 = 0 /\ 8 % 2 = 0 /\ 10 % 2 = 0
      OBVIOUS
    <3>2. {2, 4, 6, 8, 10} \subseteq 1..n
      BY <1>3
    <3>3. QED
      BY <3>1, <3>2
  <2> HIDE DEF E
  <2>2. 5 <= Cardinality(E)
    BY <1>1, <2>1, Few, FS_Subset
  <2>3. QED
    BY <2>2 DEF E
<1>4. QED
  BY <1>2, <1>3

LEMMA PrefixIs ==
  ASSUME NEW a \in Seq(Pieces), NEW p \in Seq(Pieces)
  PROVE  IsPrefix(a, p) <=> Len(a) <= Len(p) /\ \A i \in 1..Len(a) : a[i] = p[i]
<1>1. ASSUME IsPrefix(a, p) PROVE Len(a) <= Len(p) /\ \A i \in 1..Len(a) : a[i] = p[i]
  BY <1>1, PrefixSplits
<1>2. ASSUME Len(a) <= Len(p), \A i \in 1..Len(a) : a[i] = p[i] PROVE IsPrefix(a, p)
  <2> DEFINE c == SubSeq(p, 1, Len(a))
  <2>1. Len(a) \in Nat /\ Len(p) \in Nat
    OBVIOUS
  <2>2. \A i \in 1..Len(a) : p[i] \in Pieces
    BY <1>2, <2>1
  <2>3. /\ c \in Seq(Pieces) /\ Len(c) = IF 1 <= Len(a) THEN Len(a) - 1 + 1 ELSE 0
        /\ \A i \in 1..Len(a) - 1 + 1 : c[i] = p[1 + i - 1]
    BY <2>1, <2>2, SubSeqProperties
  <2> HIDE DEF c
  <2>4. Len(c) = Len(a)
    BY <2>1, <2>3
  <2>5. ASSUME NEW i \in 1..Len(c) PROVE c[i] = a[i]
    <3>1. i \in 1..Len(a) - 1 + 1 /\ 1 + i - 1 = i /\ i \in 1..Len(a)
      BY <2>1, <2>4
    <3>2. c[i] = p[1 + i - 1]
      BY <2>3, <3>1
    <3>3. QED
      BY <1>2, <3>1, <3>2
  <2>6. c = a
    BY <2>3, <2>4, <2>5, SeqEqual
  <2>7. SubSeq(a, 1, Len(a)) = a
    BY SubSeqFull
  <2>8. QED
    BY <1>2, <2>6, <2>7 DEF IsPrefix, c
<1>3. QED
  BY <1>1, <1>2

LEMMA Reversed ==
  ASSUME NEW p \in Seq(Pieces)
  PROVE  /\ Reverse(p) \in Seq(Pieces) /\ Len(Reverse(p)) = Len(p)
         /\ \A i \in 1..Len(p) : Reverse(p)[i] = p[(Len(p) - i) + 1]
<1>1. ASSUME NEW i \in 1..Len(p) PROVE p[(Len(p) - i) + 1] \in Pieces
  <2>1. (Len(p) - i) + 1 \in 1..Len(p)
    OBVIOUS
  <2>2. QED
    BY <2>1
<1>2. Reverse(p) \in [1..Len(p) -> Pieces]
  BY <1>1 DEF Reverse
<1>3. QED
  BY <1>2 DEF Reverse

\* How stripGenericWebhookBody reads a path
LEMMA HookPieces ==
  ASSUME NEW r \in Seq(Pieces)
  PROVE  /\ \A i \in 1..Len(r) :
              IsPrefix(<<"/", "buildConfigHooks", "/">>, SubSeq(r, i, Len(r)))
                <=> /\ i + 2 <= Len(r) /\ r[i] = "/"
                    /\ r[i + 1] = "buildConfigHooks" /\ r[i + 2] = "/"
         /\ IsSuffix(<<"/", "generic">>, r)
              <=> 2 <= Len(r) /\ r[Len(r) - 1] = "/" /\ r[Len(r)] = "generic"
<1>1. Len(r) \in Nat
  OBVIOUS
<1>2. ASSUME NEW i \in 1..Len(r)
      PROVE  IsPrefix(<<"/", "buildConfigHooks", "/">>, SubSeq(r, i, Len(r)))
               <=> /\ i + 2 <= Len(r) /\ r[i] = "/"
                   /\ r[i + 1] = "buildConfigHooks" /\ r[i + 2] = "/"
  <2> DEFINE a == <<"/", "buildConfigHooks", "/">>
             c == SubSeq(r, i, Len(r))
  <2>1. /\ a \in Seq(Pieces) /\ Len(a) = 3
        /\ a[1] = "/" /\ a[2] = "buildConfigHooks" /\ a[3] = "/"
    BY DEF Pieces
  <2>2. /\ c \in Seq(Pieces) /\ Len(c) = (Len(r) - i) + 1
        /\ \A j \in 1..(Len(r) - i) + 1 : c[j] = r[i + j - 1]
    <3>1. \A j \in i..Len(r) : r[j] \in Pieces
      OBVIOUS
    <3>2. i \in Int /\ i <= Len(r)
      OBVIOUS
    <3>3. /\ c \in Seq(Pieces) /\ Len(c) = IF i <= Len(r) THEN Len(r) - i + 1 ELSE 0
          /\ \A j \in 1..Len(r) - i + 1 : c[j] = r[i + j - 1]
      BY <1>1, <3>1, <3>2, SubSeqProperties
    <3>4. QED
      BY <3>2, <3>3
  <2> HIDE DEF a, c
  <2>3. IsPrefix(a, c) <=> 3 <= Len(c) /\ \A j \in 1..3 : a[j] = c[j]
    BY <2>1, <2>2, PrefixIs
  <2>4. 3 <= Len(c) <=> i + 2 <= Len(r)
    BY <1>1, <2>2
  <2>5. ASSUME i + 2 <= Len(r) PROVE c[1] = r[i] /\ c[2] = r[i + 1] /\ c[3] = r[i + 2]
    <3>1. 1 \in 1..(Len(r) - i) + 1 /\ 2 \in 1..(Len(r) - i) + 1 /\ 3 \in 1..(Len(r) - i) + 1
      BY <1>1, <2>5
    <3>2. i + 1 - 1 = i /\ i + 2 - 1 = i + 1 /\ i + 3 - 1 = i + 2
      OBVIOUS
    <3>3. c[1] = r[i + 1 - 1] /\ c[2] = r[i + 2 - 1] /\ c[3] = r[i + 3 - 1]
      BY <2>2, <3>1
    <3>4. QED
      BY <3>2, <3>3
  <2>6. (\A j \in 1..3 : a[j] = c[j]) <=> a[1] = c[1] /\ a[2] = c[2] /\ a[3] = c[3]
    <3>1. 1..3 = {1, 2, 3}
      OBVIOUS
    <3>2. QED
      BY <3>1, Zenon
  <2>7. IsPrefix(a, c) <=> /\ i + 2 <= Len(r) /\ r[i] = "/"
                           /\ r[i + 1] = "buildConfigHooks" /\ r[i + 2] = "/"
    BY <2>1, <2>3, <2>4, <2>5, <2>6
  <2>8. QED
    BY <2>7 DEF a, c
<1>3. IsSuffix(<<"/", "generic">>, r)
        <=> 2 <= Len(r) /\ r[Len(r) - 1] = "/" /\ r[Len(r)] = "generic"
  <2> DEFINE a == <<"/", "generic">>
             b == Reverse(a)
             q == Reverse(r)
  <2>1. a \in Seq(Pieces) /\ Len(a) = 2 /\ a[1] = "/" /\ a[2] = "generic"
    BY DEF Pieces
  <2> HIDE DEF a
  <2>2. b \in Seq(Pieces) /\ Len(b) = 2 /\ b[1] = "generic" /\ b[2] = "/"
    <3>1. /\ b \in Seq(Pieces) /\ Len(b) = 2
          /\ \A i \in 1..2 : b[i] = a[(2 - i) + 1]
      BY <2>1, Reversed
    <3>2. (2 - 1) + 1 = 2 /\ (2 - 2) + 1 = 1 /\ 1 \in 1..2 /\ 2 \in 1..2
      OBVIOUS
    <3> HIDE DEF b
    <3>3. b[1] = a[(2 - 1) + 1] /\ b[2] = a[(2 - 2) + 1]
      BY <3>1, <3>2
    <3>4. QED
      BY <2>1, <3>1, <3>2, <3>3
  <2>3. /\ q \in Seq(Pieces) /\ Len(q) = Len(r)
        /\ 2 <= Len(r) => q[1] = r[Len(r)] /\ q[2] = r[Len(r) - 1]
    <3>1. /\ q \in Seq(Pieces) /\ Len(q) = Len(r)
          /\ \A i \in 1..Len(r) : q[i] = r[(Len(r) - i) + 1]
      BY Reversed
    <3> HIDE DEF q
    <3>2. ASSUME 2 <= Len(r) PROVE q[1] = r[Len(r)] /\ q[2] = r[Len(r) - 1]
      <4>1. /\ 1 \in 1..Len(r) /\ 2 \in 1..Len(r)
            /\ (Len(r) - 1) + 1 = Len(r) /\ (Len(r) - 2) + 1 = Len(r) - 1
        BY <1>1, <3>2
      <4>2. q[1] = r[(Len(r) - 1) + 1] /\ q[2] = r[(Len(r) - 2) + 1]
        BY <3>1, <4>1
      <4>3. QED
        BY <4>1, <4>2
    <3>3. QED
      BY <3>1, <3>2
  <2> HIDE DEF b, q
  <2>4. IsPrefix(b, q) <=> 2 <= Len(q) /\ \A j \in 1..2 : b[j] = q[j]
    BY <2>2, <2>3, PrefixIs
  <2>5. (\A j \in 1..2 : b[j] = q[j]) <=> b[1] = q[1] /\ b[2] = q[2]
    <3>1. 1..2 = {1, 2}
      OBVIOUS
    <3>2. QED
      BY <3>1, Zenon
  <2>6. QED
    BY <2>2, <2>3, <2>4, <2>5 DEF IsSuffix, a, b, q
<1>4. QED
  BY <1>2, <1>3

\* The path of a generic webhook, when it arrives at the OpenShift API
HookPath(x) ==
  /\ Len(x) = 12
  /\ x[2] = "osapi" /\ x[6] = "buildConfigHooks"
  /\ x[12] = "generic"
  /\ \A i \in 1..12 : x[i] = "/" <=> i % 2 = 1

LEMMA HookIsFive ==
  ASSUME NEW r \in Seq(Pieces),
         (\E i \in 1..Len(r) : r[i] = "buildConfigHooks") =>
           \A i \in 1..Len(r) : r[i] = "/" <=> i % 2 = 0
  PROVE  IsGenericWebhook(r) <=> HookPath(OsApiPath \o r)
<1> DEFINE x == OsApiPath \o r
           slashes == {i \in DOMAIN r : r[i] = "/"}
<1>1. /\ Len(r) \in Nat /\ DOMAIN r = 1..Len(r) /\ Len(x) = Len(r) + 3
      /\ x[1] = "/" /\ x[2] = "osapi" /\ x[3] = "/"
      /\ \A i \in 1..Len(r) : x[i + 3] = r[i]
  <2>1. /\ OsApiPath \in Seq(Pieces) /\ Len(OsApiPath) = 3 /\ Len(r) \in Nat
        /\ OsApiPath[1] = "/" /\ OsApiPath[2] = "osapi" /\ OsApiPath[3] = "/"
    BY DEF OsApiPath, Pieces
  <2>2. /\ Len(x) = Len(OsApiPath) + Len(r)
        /\ \A i \in 1..Len(OsApiPath) + Len(r) :
             x[i] = IF i <= Len(OsApiPath) THEN OsApiPath[i] ELSE r[i - Len(OsApiPath)]
    BY <2>1, ConcatProperties
  <2> HIDE DEF x
  <2>3. /\ Len(x) = 3 + Len(r)
        /\ \A i \in 1..3 + Len(r) : x[i] = IF i <= 3 THEN OsApiPath[i] ELSE r[i - 3]
    BY <2>1, <2>2
  <2>4. ASSUME NEW i \in 1..Len(r) PROVE x[i + 3] = r[i]
    <3>1. i + 3 \in 1..3 + Len(r) /\ ~(i + 3 <= 3) /\ (i + 3) - 3 = i
      BY <2>1
    <3>2. x[i + 3] = r[(i + 3) - 3]
      BY <2>3, <3>1
    <3>3. QED
      BY <3>1, <3>2
  <2>5. x[1] = "/" /\ x[2] = "osapi" /\ x[3] = "/"
    <3>1. 1 \in 1..3 + Len(r) /\ 2 \in 1..3 + Len(r) /\ 3 \in 1..3 + Len(r)
      BY <2>1
    <3>2. QED
      BY <2>1, <2>3, <3>1
  <2>6. QED
    BY <2>1, <2>3, <2>4, <2>5
<1> HIDE DEF x
<1>2. ASSUME IsGenericWebhook(r) PROVE HookPath(x)
  <2>1. Cardinality(slashes) = 4
    BY <1>2 DEF IsGenericWebhook
  <2>2. PICK i \in slashes :
          /\ \A j \in slashes : i <= j
          /\ IsPrefix(<<"/", "buildConfigHooks", "/">>, SubSeq(r, i, Len(r)))
    BY <1>2 DEF IsGenericWebhook
  <2>3. i \in 1..Len(r) /\ i + 2 <= Len(r) /\ r[i + 1] = "buildConfigHooks"
    BY <1>1, <2>2, HookPieces
  <2>4. \A j \in 1..Len(r) : r[j] = "/" <=> j % 2 = 0
    <3>1. i + 1 \in 1..Len(r)
      BY <1>1, <2>3
    <3>2. QED
      BY <2>3, <3>1
  <2>5. slashes = {j \in 1..Len(r) : j % 2 = 0}
    BY <1>1, <2>4
  <2>6. Len(r) \in {8, 9}
    BY <1>1, <2>1, <2>5, NinePieces
  <2>7. r[Len(r)] = "generic"
    BY <1>2, HookPieces DEF IsGenericWebhook
  <2>8. Len(r) = 9
    <3>1. ASSUME Len(r) = 8 PROVE FALSE
      <4>1. 8 % 2 = 0 /\ 8 \in 1..Len(r)
        BY <3>1
      <4>2. r[8] = "/" /\ r[8] = "generic"
        BY <2>4, <2>7, <3>1, <4>1
      <4>3. QED
        BY <4>2
    <3>2. QED
      BY <2>6, <3>1
  <2>9. i = 2
    <3>1. 2 \in slashes
      BY <2>5, <2>8
    <3>2. i <= 2 /\ i % 2 = 0 /\ i \in 1..9
      BY <2>2, <2>5, <2>8, <3>1
    <3>3. QED
      BY <3>2
  <2>10. r[3] = "buildConfigHooks"
    BY <2>3, <2>9
  <2>11. Len(x) = 12 /\ x[6] = "buildConfigHooks" /\ x[12] = "generic"
    <3>1. x[3 + 3] = r[3] /\ x[9 + 3] = r[9] /\ Len(x) = 9 + 3
      BY <1>1, <2>8
    <3>2. QED
      BY <2>7, <2>8, <2>10, <3>1
  <2>12. ASSUME NEW j \in 1..12 PROVE x[j] = "/" <=> j % 2 = 1
    <3>1. CASE j \in 1..3
      BY <1>1, <3>1
    <3>2. CASE j \in 4..12
      <4>1. j - 3 \in 1..Len(r) /\ (j - 3) + 3 = j
        BY <2>8, <3>2
      <4>2. x[j] = r[j - 3]
        BY <1>1, <4>1
      <4>3. (j - 3) % 2 = 0 <=> j % 2 = 1
        BY <3>2
      <4>4. QED
        BY <2>4, <4>1, <4>2, <4>3
    <3>3. QED
      BY <3>1, <3>2
  <2>13. QED
    BY <1>1, <2>11, <2>12 DEF HookPath
<1>3. ASSUME HookPath(x) PROVE IsGenericWebhook(r)
  <2>1. Len(r) = 9 /\ \A i \in 1..9 : x[i + 3] = r[i]
    <3>1. Len(x) = 12
      BY <1>3 DEF HookPath
    <3>2. Len(r) = 9
      <4> DEFINE n == Len(r)
      <4>1. n \in Nat /\ n + 3 = 12
        BY <1>1, <3>1, Zenon
      <4> HIDE DEF n
      <4>2. n = 9
        BY <4>1
      <4>3. QED
        BY <4>2 DEF n
    <3>3. QED
      BY <1>1, <3>2
  <2>2. r[3] = "buildConfigHooks" /\ r[9] = "generic"
    <3>1. x[3 + 3] = r[3] /\ x[9 + 3] = r[9]
      BY <2>1
    <3>2. QED
      BY <1>3, <3>1 DEF HookPath
  <2>3. ASSUME NEW i \in 1..9 PROVE r[i] = "/" <=> i % 2 = 0
    <3>1. i + 3 \in 1..12 /\ ((i + 3) % 2 = 1 <=> i % 2 = 0)
      OBVIOUS
    <3>2. QED
      BY <1>3, <2>1, <3>1 DEF HookPath
  <2>4. slashes = {2, 4, 6, 8}
    <3>1. slashes = {i \in 1..9 : i % 2 = 0}
      BY <1>1, <2>1, <2>3
    <3>2. QED
      BY <3>1
  <2>5. r[2] = "/" /\ r[4] = "/" /\ r[8] = "/"
    BY <2>3
  <2>6. IsPrefix(<<"/", "buildConfigHooks", "/">>, SubSeq(r, 2, Len(r)))
    <3>1. 2 \in 1..Len(r) /\ 2 + 2 <= Len(r) /\ 2 + 1 = 3 /\ 2 + 2 = 4
      BY <2>1
    <3>2. QED
      BY <2>2, <2>5, <3>1, HookPieces
  <2>7. IsSuffix(<<"/", "generic">>, r)
    <3>1. 2 <= Len(r) /\ Len(r) - 1 = 8
      BY <2>1
    <3>2. QED
      BY <2>1, <2>2, <2>5, <3>1, HookPieces
  <2>8. Cardinality(slashes) = 4
    BY <2>4, Few
  <2>9. 2 \in slashes /\ \A j \in slashes : 2 <= j
    BY <2>4
  <2> HIDE DEF slashes
  <2>10. \E i \in slashes :
           /\ \A j \in slashes : i <= j
           /\ IsPrefix(<<"/", "buildConfigHooks", "/">>, SubSeq(r, i, Len(r)))
    BY <2>6, <2>9
  <2>11. QED
    BY <2>7, <2>8, <2>10 DEF IsGenericWebhook, slashes
<1>4. QED
  BY <1>2, <1>3 DEF x

\* In a clean path of unsplit names slashes and names take turns; so they do in what
\* follows the prefix, which starts with a name.
LEMMA TakingTurns ==
  ASSUME NEW path \in Paths, Clean(path), NEW k \in 0..Len(path),
         k # Len(path) => k # 0 /\ path[k] = "/",
         \E i \in DOMAIN path : path[i] = "buildConfigHooks"
  PROVE  \A i \in 1..Len(path) - k : path[k + i] = "/" <=> i % 2 = 0
<1>1. path \in Seq(Pieces) /\ Len(path) \in Nat /\ DOMAIN path = 1..Len(path)
  BY PathsAssumption, MadeOfPieces
<1>2. \A i \in 1..(Len(path) - 1) : path[i + 1] = "/" <=> path[i] # "/"
  BY PathsAssumption DEF Clean
<1>3. CASE k = Len(path)
  BY <1>1, <1>3
<1>4. CASE k # Len(path)
  <2> DEFINE n == Len(path)
             Bad == {i \in 1..n - k : ~(path[k + i] = "/" <=> i % 2 = 0)}
  <2>1. n \in Nat /\ k \in 0..n /\ k # n /\ k # 0 /\ path[k] = "/"
    BY <1>1, <1>4
  <2>2. \A i \in 1..(n - 1) : path[i + 1] = "/" <=> path[i] # "/"
    BY <1>2
  <2>3. SUFFICES ASSUME Bad # {} PROVE FALSE
    OBVIOUS
  <2> HIDE DEF n
  <2>4. Bad \in SUBSET Nat
    BY <2>1
  <2> HIDE DEF Bad
  <2>5. PICK i \in Bad : \A j \in Bad : i <= j
    BY <2>3, <2>4, LeastNumber
  <2>6. i \in 1..n - k /\ ~(path[k + i] = "/" <=> i % 2 = 0)
    BY DEF Bad
  <2>7. CASE i = 1
    <3>1. k \in 1..(n - 1)
      BY <2>1
    <3>2. path[k + 1] # "/"
      BY <2>1, <2>2, <3>1
    <3>3. QED
      BY <2>6, <2>7, <3>2
  <2>8. CASE i # 1
    <3>1. i - 1 \in 1..n - k /\ ~(i <= i - 1)
      BY <2>1, <2>6, <2>8
    <3>2. i - 1 \notin Bad
      BY <2>5, <3>1
    <3>3. path[k + (i - 1)] = "/" <=> (i - 1) % 2 = 0
      BY <3>1, <3>2 DEF Bad
    <3>4. k + (i - 1) \in 1..(n - 1) /\ (k + (i - 1)) + 1 = k + i
      BY <2>1, <2>6, <2>8
    <3>5. path[k + i] = "/" <=> path[k + (i - 1)] # "/"
      BY <2>2, <3>4
    <3>6. (i - 1) % 2 = 0 <=> ~(i % 2 = 0)
      BY <2>1, <2>6
    <3>7. QED
      BY <2>6, <3>3, <3>5, <3>6
  <2>9. QED
    BY <2>7, <2>8
<1>5. QED
  BY <1>3, <1>4

LEMMA DropsBody ==
  ASSUME Configured, OptsOK, phase = "listening", NEW path \in Paths, answer = Served(path)
  PROVE  WebhookBodyDropped
<1> SUFFICES ASSUME answer.kind = "upstream" PROVE WebhookBodyDropped
  BY DEF WebhookBodyDropped
<1> DEFINE root == IF answer.via = "osapi" THEN OsApiPath
                   ELSE (IF EndsInSlash(opts.master.path) THEN Front(opts.master.path)
                         ELSE opts.master.path) \o <<"/", "api", "/">>
<1>1. PICK route \in Handler(path) :
        LET rest == Stripped(route.pattern, path) IN
        /\ route.handler \in {"api", "osapi", "osapiNoCA"}
        /\ answer.path = root \o rest
        /\ answer.body = IF answer.via = "api" THEN TRUE ELSE ~IsGenericWebhook(rest)
  BY Goes
<1>2. answer.via \in {"api", "osapi"} /\ Clean(path)
  BY Goes
<1> DEFINE rest == Stripped(route.pattern, path)
           k == Len(route.pattern)
<1>3. /\ rest \in Seq(Pieces) /\ Len(rest) = Len(path) - k /\ k \in Nat
      /\ \A i \in 1..Len(rest) : rest[i] = path[k + i]
      /\ rest # <<>> => path[k] = "/" /\ k \in 1..Len(path)
  BY <1>1, <1>2, RestOfPath
<1>4. path \in Seq(Pieces) /\ Len(path) \in Nat /\ DOMAIN path = 1..Len(path)
  BY PathsAssumption, MadeOfPieces
<1> HIDE DEF rest, k
<1>5. WebhookBodyDropped <=> (~answer.body <=> answer.via = "osapi" /\ HookPath(answer.path))
  BY DEF WebhookBodyDropped, HookPath
<1>6. CASE answer.via = "api"
  BY <1>1, <1>5, <1>6
<1>7. CASE answer.via = "osapi"
  <2>1. answer.path = OsApiPath \o rest /\ answer.body = ~IsGenericWebhook(rest)
    BY <1>1, <1>7 DEF rest
  <2>2. Len(rest) \in Nat /\ k \in 0..Len(path) /\ (k # Len(path) => rest # <<>>)
    <3>1. Len(rest) \in Nat
      BY <1>3
    <3>2. rest = <<>> => Len(rest) = 0
      OBVIOUS
    <3>3. QED
      BY <1>3, <1>4, <3>1, <3>2
  <2>3. ASSUME NEW i \in 1..Len(rest), rest[i] = "buildConfigHooks"
        PROVE  \A j \in 1..Len(rest) : rest[j] = "/" <=> j % 2 = 0
    <3>1. k + i \in DOMAIN path /\ path[k + i] = "buildConfigHooks"
      BY <1>3, <1>4, <2>2, <2>3
    <3>2. k # Len(path) => k # 0 /\ path[k] = "/"
      BY <1>3, <2>2
    <3>3. \A j \in 1..Len(path) - k : path[k + j] = "/" <=> j % 2 = 0
      BY <1>2, <2>2, <3>1, <3>2, TakingTurns
    <3>4. QED
      BY <1>3, <3>3
  <2>4. IsGenericWebhook(rest) <=> HookPath(OsApiPath \o rest)
    BY <1>3, <2>3, HookIsFive
  <2>5. QED
    BY <1>5, <1>7, <2>1, <2>4
<1>8. QED
  BY <1>2, <1>6, <1>7

---------------------------------------------------------------------------

LEMMA InitConfigured == Init => Configured
  BY DEF Init, Configured

\* A handler is registered under its own prefix.
LEMMA RegisterStep ==
  ASSUME IInv, Configured, RegisterConfigJs \/ NewProxyServer \/ RegisterOsApi
  PROVE  Configured'
<1>1. /\ UNCHANGED <<opts, target, answer>> /\ phase \in {"config", "proxy", "osapi"}
      /\ answer = NoAnswer
  BY DEF RegisterConfigJs, NewProxyServer, RegisterOsApi, Configured
<1>2. \A m \in mux' \ mux :
        \/ m = Route(ConfigJs, "config")
        \/ m = Route(opts.api, "api")
        \/ m = Route(opts.static, "static")
        \/ m = Route(opts.osapi, "osapi") \/ m = Route(opts.osapi, "osapiNoCA")
  <2>1. CASE RegisterConfigJs
    BY <2>1 DEF RegisterConfigJs
  <2>2. CASE NewProxyServer
    BY <2>2 DEF NewProxyServer
  <2>3. CASE RegisterOsApi
    BY <2>3 DEF RegisterOsApi
  <2>4. QED
    BY <2>1, <2>2, <2>3
<1>3. /\ opts.api \in Seq(STRING) /\ opts.static \in Seq(STRING) /\ opts.osapi \in Seq(STRING)
  BY PrefixesAssumption DEF IInv, OptsOK
<1>4. ASSUME NEW m \in mux'
      PROVE  /\ m.pattern \in Seq(STRING) \/ m.pattern = ConfigJs
             /\ m.handler \in Handlers
             /\ m.handler = "api" => m.pattern = opts.api
             /\ m.handler \in {"osapi", "osapiNoCA"} => m.pattern = opts.osapi
  <2>1. CASE m \in mux
    BY <2>1 DEF Configured
  <2>2. CASE m \notin mux
    BY <1>2, <1>3, <2>2 DEF Route, Handlers
  <2>3. QED
    BY <2>1, <2>2
<1>5. target' = ClientUrl(opts.master)
  BY <1>1 DEF Configured
<1>6. QED
  BY <1>1, <1>4, <1>5 DEF Configured, ClientUrl

\* What is served follows from the options and the table of handlers alone.
LEMMA ServedSame ==
  ASSUME UNCHANGED <<opts, mux>>
  PROVE  \A path : Served(path)' = Served(path)
BY DEF Served, Handler, Implicit, Patterns

LEMMA ConfiguredStep == IInv /\ Configured /\ [Next]_vars => Configured'
<1> SUFFICES ASSUME IInv, Configured, [Next]_vars PROVE Configured'
  OBVIOUS
<1>1. CASE ReadOptions
  <2>1. mux' = {} /\ phase' = "client" /\ answer' = NoAnswer
    BY <1>1 DEF ReadOptions, IInv, Registered, Configured
  <2>2. QED
    BY <2>1 DEF Configured
<1>2. CASE NewClient
  <2>1. /\ UNCHANGED <<opts, mux, answer>> /\ mux = {} /\ answer = NoAnswer
        /\ phase' = "exited" \/ target' = ClientUrl(opts.master)
    BY <1>2 DEF NewClient, IInv, Registered, Configured
  <2>2. QED
    BY <2>1 DEF Configured, ClientUrl
<1>3. CASE SendProbe \/ ProbeAnswered \/ Listen
  <2>1. /\ UNCHANGED <<opts, mux, answer, target>> /\ answer = NoAnswer
        /\ phase \in {"probe", "waiting", "listen"}
    BY <1>3 DEF SendProbe, ProbeAnswered, Listen, Configured
  <2>2. QED
    BY <2>1 DEF Configured, ClientUrl
<1>4. CASE RegisterConfigJs \/ NewProxyServer \/ RegisterOsApi
  BY <1>4, RegisterStep
<1>5. CASE Request
  <2>1. /\ UNCHANGED <<opts, mux, target, phase>> /\ phase = "listening"
        /\ \E path \in Paths : answer' = Served(path)
    BY <1>5 DEF Request
  <2>2. \A path : Served(path)' = Served(path)
    BY <2>1, ServedSame
  <2>3. QED
    BY <2>1, <2>2 DEF Configured, ClientUrl
<1>6. CASE CaFileChanges \/ UNCHANGED vars
  <2>1. UNCHANGED <<opts, mux, target, phase, answer>>
    BY <1>6 DEF CaFileChanges, vars
  <2>2. \A path : Served(path)' = Served(path)
    BY <2>1, ServedSame
  <2>3. QED
    BY <2>1, <2>2 DEF Configured, ClientUrl
<1>7. QED
  BY <1>1, <1>2, <1>3, <1>4, <1>5, <1>6 DEF Next, Startup

LEMMA Answers ==
  ASSUME IInv, Configured
  PROVE  ProxiedStraightThrough /\ WebhookBodyDropped
<1>1. OptsOK
  BY DEF IInv
<1>2. CASE answer = NoAnswer
  BY <1>2 DEF NoAnswer, ProxiedStraightThrough, WebhookBodyDropped
<1>3. CASE answer # NoAnswer
  <2>1. PICK path \in Paths : answer = Served(path)
    BY <1>3 DEF Configured
  <2>2. phase = "listening"
    BY <1>3 DEF Configured
  <2>3. QED
    BY <1>1, <2>1, <2>2, GoesStraight, DropsBody
<1>4. QED
  BY <1>2, <1>3

\* What the options say, the client and the table of handlers agree on
THEOREM WellConfigured == Spec => []Configured
<1>1. Init => Configured
  BY InitConfigured
<1>2. IInv /\ Configured /\ [Next]_vars => Configured'
  BY ConfiguredStep
<1>3. QED
  BY <1>1, <1>2, Invariant, PTL DEF Spec

\* Whatever the options and the path of a request: it goes to the server that was asked
\* for its version at startup, and to the path that is made of the master's own path,
\* the API's, and all that followed the prefix, with one slash at each joint.
THEOREM StraightThrough == Spec => []ProxiedStraightThrough
  BY Answers, Invariant, WellConfigured, PTL

\* Whatever the prefixes and the path of a request, its body is dropped exactly when it
\* arrives as a generic webhook at the OpenShift API.
THEOREM HooksWithoutBody == Spec => []WebhookBodyDropped
  BY Answers, Invariant, WellConfigured, PTL
=============================================================================
