----------------------------- MODULE ProxyMain -----------------------------
(***************************************************************************)
(* k8s-proxy from its command line to the requests it forwards: main.go,   *)
(* kubectl's proxy_server.go, and what they use of the Kubernetes client   *)
(* (helper.go, transport.go, request.go).                                  *)
(*                                                                         *)
(* A path is a sequence of pieces, "/" and names; a name may be split in   *)
(* two pieces where one path is to be a prefix of another.                 *)
(***************************************************************************)
EXTENDS Integers, Sequences, FiniteSets, SequencesExt

CONSTANTS
  Masters,         \* values of --kubernetes-master
  ApiPrefixes,     \* of --api-prefix
  OsApiPrefixes,   \* of --osapi-prefix; <<>> when not given
  StaticPrefixes,  \* of --www-prefix
  Paths,           \* paths of requests
  Retries          \* how often Request.Do tries again: 10 in the code

\* A master is a URL, or a bare host[:port] when its scheme is "".  What
\* url.Parse takes for a scheme in "name:8080" is "name".
Schemes == {"http", "https", "", "name"}

ASSUME MastersAssumption ==
  \A m \in Masters :
    /\ m \in [scheme : Schemes, host : Seq(STRING), path : Seq(STRING)]
    /\ m.scheme = "" => m.path \in {<<>>, <<"/">>}

ASSUME PrefixesAssumption ==
  ApiPrefixes \cup OsApiPrefixes \cup StaticPrefixes \subseteq Seq(STRING)

\* Names are in one piece where a path may be a webhook's, of five segments.
ASSUME PathsAssumption ==
  \A path \in Paths :
    /\ path \in Seq(STRING)
    /\ (\E i \in DOMAIN path : path[i] = "buildConfigHooks") =>
         \A i \in 1..(Len(path) - 1) : path[i] # "/" => path[i + 1] = "/"

ASSUME RetriesAssumption == Retries \in Nat

VARIABLES
  opts,      \* the options, fixed once parsed
  caFile,    \* whether the CA file can be read
  phase,     \* how far main has come
  attempts,  \* requests the version probe has sent
  target,    \* the client's base URL, as a master
  mux,       \* http.DefaultServeMux: registered patterns and their handlers
  answer     \* what became of the last request

vars == <<opts, caFile, phase, attempts, target, mux, answer>>

---------------------------------------------------------------------------
(* URLs *)

Slash == <<"/">>
ApiPath   == <<"/", "api">>         \* cfg.Prefix, by default
OsApiPath == <<"/", "osapi", "/">>
ConfigJs  == <<"/", "osconsole", "/", "config.js">>

EndsInSlash(p)    == IsSuffix(Slash, p)
StartsInSlash(p)  == IsPrefix(Slash, p)

\* Mutation: the two slashes of "a/" and "/b" are both kept.
JoiningBoth(a, b) ==
  IF ~EndsInSlash(a) /\ ~StartsInSlash(b) THEN a \o Slash \o b ELSE a \o b

\* proxy_server.go, and the same in httputil
SingleJoiningSlash(a, b) ==
  IF EndsInSlash(a) /\ StartsInSlash(b) THEN a \o Tail(b)
  ELSE IF ~EndsInSlash(a) /\ ~StartsInSlash(b) THEN a \o Slash \o b
  ELSE a \o b

\* url.Parse: a bare host is all path.
Parsed(m) ==
  IF m.scheme # "" THEN m
  ELSE [scheme |-> "", host |-> <<>>, path |-> m.host \o m.path]

\* DefaultServerURL gives a bare host, and localhost for none, a scheme.  (It
\* refuses a bare host with a path: none of Masters is one.)
ClientUrl(m) ==
  IF m.scheme # "" THEN m
  ELSE [m EXCEPT !.scheme = IF opts.insecure THEN "https" ELSE "http",
                 !.host   = IF m.host \o m.path = <<>> THEN <<"localhost">> ELSE m.host]

\* NewProxyServer: url.Parse(singleJoiningSlash(cfg.Host, "/api")).  Host and
\* path are joined as one string before they are parsed.
ApiTarget(m) ==
  Parsed([m EXCEPT !.path = SingleJoiningSlash(@, ApiPath)])

\* main: the osapi target takes scheme and host from the parsed master.
OsApiTarget(m) == [Parsed(m) EXCEPT !.path = OsApiPath]

\* http.Transport refuses anything else.
Reachable(url) == url.scheme \in {"http", "https"} /\ url.host # <<>>

---------------------------------------------------------------------------
(* http.ServeMux *)

Patterns == {m.pattern : m \in mux}

\* http.Handle panics on an empty pattern and on one registered before.
CanHandle(pattern) == pattern # <<>> /\ pattern \notin Patterns
Route(pattern, handler) == [pattern |-> pattern, handler |-> handler]

\* Registering "/tree/" also redirects "/tree", unless that is registered.
Implicit ==
  {Route(SubSeq(p, 1, Len(p) - 1), "redirect") :
     p \in {q \in Patterns :
              EndsInSlash(q) /\ Len(q) > 1 /\ SubSeq(q, 1, Len(q) - 1) \notin Patterns}}

\* pathMatch: a pattern is exact unless it ends in a slash.
PathMatch(pattern, path) ==
  pattern = path \/ (EndsInSlash(pattern) /\ IsPrefix(pattern, path))

\* The longest pattern wins; no handler when none matches.
Handler(path) ==
  LET matching == {m \in mux \cup Implicit : PathMatch(m.pattern, path)} IN
  {m \in matching : \A n \in matching : Len(n.pattern) <= Len(m.pattern)}

\* cleanPath leaves a path alone that has no empty or dotted segments.
Clean(path) ==
  /\ StartsInSlash(path)
  /\ \A i \in 1..(Len(path) - 1) : path[i] = "/" => path[i + 1] \notin {"/", ".", ".."}

---------------------------------------------------------------------------
(* Startup *)

NoAnswer == [kind |-> "none", via |-> "none", scheme |-> "", host |-> <<>>,
             path |-> <<>>, asked |-> <<>>, body |-> TRUE]

NoMaster  == [scheme |-> "", host |-> <<>>, path |-> <<>>]
InCluster == [scheme |-> "https", host |-> <<"cluster">>, path |-> <<>>]

Options == [master : Masters, ca : BOOLEAN, insecure : BOOLEAN, oauth : BOOLEAN,
            api : ApiPrefixes, osapi : OsApiPrefixes, static : StaticPrefixes]

Init ==
  /\ opts     \in Options
  /\ caFile   \in IF opts.ca THEN BOOLEAN ELSE {TRUE}
  /\ phase    = "options"
  /\ attempts = 0
  /\ target   = InCluster
  /\ mux      = {}
  /\ answer   = NoAnswer

\* KUBERNETES_SERVICE_HOST stands in for a master that is not given.
ReadOptions ==
  /\ phase = "options"
  /\ \E inCluster \in BOOLEAN :
       opts' = IF inCluster /\ opts.master = NoMaster
               THEN [opts EXCEPT !.master = InCluster] ELSE opts
  /\ phase' = "client"
  /\ UNCHANGED <<caFile, attempts, target, mux, answer>>

\* TransportFor: the CA file excludes --insecure and has to be readable.
TransportOK == opts.ca => ~opts.insecure /\ caFile

\* k8sclient.New; main panics on its error, which may also be the version.
NewClient ==
  /\ phase = "client"
  /\ IF TransportOK
     THEN /\ phase' \in {"probe", "exited"}
          /\ target' = ClientUrl(opts.master)
     ELSE phase' = "exited" /\ UNCHANGED target
  /\ UNCHANGED <<opts, caFile, attempts, mux, answer>>

\* ServerVersion: Request.Do sends its request, which fails at once where there
\* is nothing to send it to.  There is no timeout on the answer.
SendProbe ==
  /\ phase = "probe"
  /\ phase' = IF Reachable(target) THEN "waiting" ELSE "exited"
  /\ attempts' = attempts + 1
  /\ UNCHANGED <<opts, caFile, target, mux, answer>>

\* Mutation: the retries are compared after they are counted.
ProbeOnceMore ==
  /\ phase = "waiting"
  /\ \E reply \in {"version", "busy", "error"} :
       phase' = CASE reply = "version" -> "config"
                  [] reply = "busy" /\ attempts <= Retries + 1 -> "probe"
                  [] OTHER -> "exited"
  /\ UNCHANGED <<opts, caFile, attempts, target, mux, answer>>

\* Mutation: retries := 0 is inside the loop.
ProbeForgets ==
  /\ phase = "waiting"
  /\ \E reply \in {"version", "busy", "error"} :
       phase' = CASE reply = "version" -> "config"
                  [] reply = "busy" /\ attempts <= Retries -> "probe"
                  [] OTHER -> "exited"
  /\ attempts' = IF phase' = "probe" THEN 0 ELSE attempts
  /\ UNCHANGED <<opts, caFile, target, mux, answer>>

\* A 429 with a number in Retry-After is tried again, at most Retries times;
\* any failure makes main panic.
ProbeAnswered ==
  /\ phase = "waiting"
  /\ \E reply \in {"version", "busy", "error"} :
       phase' = CASE reply = "version" -> "config"
                  [] reply = "busy" /\ attempts <= Retries -> "probe"
                  [] OTHER -> "exited"
  /\ UNCHANGED <<opts, caFile, attempts, target, mux, answer>>

\* The handler of /osconsole/config.js, when there is an OAuth client
RegisterConfigJs ==
  /\ phase = "config"
  /\ mux' = IF opts.oauth THEN mux \cup {Route(ConfigJs, "config")} ELSE mux
  /\ phase' = "proxy"
  /\ UNCHANGED <<opts, caFile, attempts, target, answer>>

\* Mutation: the API is registered before its transport is made.
RegisterBeforeTransport ==
  /\ phase = "proxy"
  /\ CanHandle(opts.api)
  /\ LET withApi == mux \cup {Route(opts.api, "api")} IN
     IF TransportOK /\ CanHandle(opts.static) /\ opts.static # opts.api
     THEN mux' = withApi \cup {Route(opts.static, "static")}
     ELSE mux' = withApi
  /\ phase' = IF ~TransportOK \/ CanHandle(opts.static) THEN "osapi" ELSE "exited"
  /\ UNCHANGED <<opts, caFile, attempts, target, answer>>

\* NewProxyServer, whose error main drops.  A pattern that cannot be
\* registered is a panic; the API's comes first.
NewProxyServer ==
  /\ phase = "proxy"
  /\ \/ ~TransportOK /\ phase' = "osapi" /\ UNCHANGED mux
     \/ TransportOK /\ ~CanHandle(opts.api) /\ phase' = "exited" /\ UNCHANGED mux
     \/ /\ TransportOK /\ CanHandle(opts.api)
        /\ LET withApi == mux \cup {Route(opts.api, "api")} IN
           IF CanHandle(opts.static) /\ opts.static # opts.api
           THEN mux' = withApi \cup {Route(opts.static, "static")} /\ phase' = "osapi"
           ELSE mux' = withApi /\ phase' = "exited"
  /\ UNCHANGED <<opts, caFile, attempts, target, answer>>

\* The OpenShift API.  An error of TransportFor is dropped here too and leaves
\* the default transport, which does not know the CA.
RegisterOsApi ==
  /\ phase = "osapi"
  /\ IF opts.osapi = <<>> THEN phase' = "listen" /\ UNCHANGED mux
     ELSE IF ~CanHandle(opts.osapi) THEN phase' = "exited" /\ UNCHANGED mux
     ELSE /\ mux' = mux \cup {Route(opts.osapi,
                                    IF TransportOK THEN "osapi" ELSE "osapiNoCA")}
          /\ phase' = "listen"
  /\ UNCHANGED <<opts, caFile, attempts, target, answer>>

\* ListenAndServe, or log.Fatal
Listen ==
  /\ phase = "listen"
  /\ phase' \in {"listening", "exited"}
  /\ UNCHANGED <<opts, caFile, attempts, target, mux, answer>>

---------------------------------------------------------------------------
(* Requests *)

\* http.StripPrefix: the handler behind it sees the rest of the path; an
\* exact match leaves nothing of it.
Stripped(pattern, path) == SubSeq(path, Len(pattern) + 1, Len(path))

\* Mutation: the number of segments is not looked at.
AnyGenericWebhook(path) ==
  /\ \E i \in DOMAIN path :
       IsPrefix(<<"/", "buildConfigHooks", "/">>, SubSeq(path, i, Len(path)))
  /\ IsSuffix(<<"/", "generic">>, path)

\* stripGenericWebhookBody: five segments, the second "buildConfigHooks" and
\* the last "generic".
IsGenericWebhook(path) ==
  LET slashes == {i \in DOMAIN path : path[i] = "/"} IN
  /\ Cardinality(slashes) = 4
  /\ \E i \in slashes :
       /\ \A j \in slashes : i <= j
       /\ IsPrefix(<<"/", "buildConfigHooks", "/">>, SubSeq(path, i, Len(path)))
  /\ IsSuffix(<<"/", "generic">>, path)

\* The director of a reverse proxy, and what its transport makes of it
Forwarded(url, path, asked, via, body) ==
  [kind   |-> IF Reachable(url) THEN "upstream" ELSE "error",
   via    |-> via, scheme |-> url.scheme, host |-> url.host,
   path   |-> SingleJoiningSlash(url.path, path), asked |-> asked, body |-> body]

Local(kind, path, asked) ==
  [NoAnswer EXCEPT !.kind = kind, !.path = path, !.asked = asked]

\* What becomes of a request with a body for path
Served(path) ==
  IF ~Clean(path) THEN Local("redirect", path, path)
  ELSE IF Handler(path) = {} THEN Local("notFound", path, path)
  ELSE
    LET route == CHOOSE m \in Handler(path) : TRUE
        rest  == Stripped(route.pattern, path)
    IN CASE route.handler = "redirect" -> Local("redirect", path \o Slash, path)
         [] route.handler = "config"   -> Local("config", path, path)
         [] route.handler = "static"   -> Local("file", rest, path)
         [] route.handler = "api" ->
              Forwarded(ApiTarget(opts.master), rest, path, "api", TRUE)
         [] route.handler \in {"osapi", "osapiNoCA"} ->
              Forwarded(OsApiTarget(opts.master), rest, path, "osapi",
                        ~IsGenericWebhook(rest))

\* Bound: one request, since none changes what the next one meets.
Request ==
  /\ phase = "listening" /\ answer = NoAnswer
  /\ \E path \in Paths : answer' = Served(path)
  /\ UNCHANGED <<opts, caFile, phase, attempts, target, mux>>

\* The CA file is removed, or made readable, before it is last read.
CaFileChanges ==
  /\ opts.ca /\ phase \notin {"listen", "listening", "exited"}
  /\ caFile' = ~caFile
  /\ UNCHANGED <<opts, phase, attempts, target, mux, answer>>

Startup ==
  \/ ReadOptions
  \/ NewClient
  \/ SendProbe
  \/ RegisterConfigJs
  \/ NewProxyServer
  \/ RegisterOsApi
  \/ Listen

Next == Startup \/ ProbeAnswered \/ Request \/ CaFileChanges

Spec == Init /\ [][Next]_vars

\* main is one goroutine that waits for nothing but the API server's answer:
\* no fairness is asked of that.
FairSpec == Spec /\ WF_vars(Startup)

---------------------------------------------------------------------------
(* Properties *)

Phases == {"options", "client", "probe", "waiting", "config", "proxy", "osapi",
           "listen", "listening", "exited"}

Handlers == {"config", "api", "static", "osapi", "osapiNoCA"}

AllPatterns == ApiPrefixes \cup StaticPrefixes \cup OsApiPrefixes \cup {ConfigJs}

\* Options, server table and counters are what main makes of its options: the
\* probe sends at most Retries requests again.
TypeOK ==
  /\ phase \in Phases
  /\ attempts \in 0..(Retries + 1)
  /\ opts.master \in Masters \cup {InCluster}
  /\ mux \subseteq [pattern : AllPatterns, handler : Handlers]

\* When the proxy listens, the API and the static files are both served or
\* neither is, although NewProxyServer registers one after the other and its
\* error is dropped (main.go:118); the other two are served when asked for.
RoutesTogether ==
  phase = "listening" =>
    LET serving == {m.handler : m \in mux} IN
    /\ "api" \in serving <=> "static" \in serving
    /\ "config" \in serving <=> opts.oauth
    /\ serving \cap {"osapi", "osapiNoCA"} # {} <=> opts.osapi # <<>>

\* Requests are "proxied straight through": to the server that was asked for
\* its version at startup, which the option names in three different ways
\* (DefaultServerURL; url.Parse in main and in NewProxyServer), and to the path
\* that is the master's own, the API's, and what followed the prefix, in place
\* and with no slash lost or doubled in the joining.
ProxiedStraightThrough ==
  answer.kind = "upstream" =>
    LET prefix == IF answer.via = "api" THEN opts.api ELSE opts.osapi
        root   == IF answer.via = "osapi" THEN OsApiPath
                  ELSE (IF EndsInSlash(opts.master.path) THEN Front(opts.master.path)
                        ELSE opts.master.path) \o <<"/", "api", "/">>
    IN /\ answer.scheme = target.scheme /\ answer.host = target.host
       /\ answer.asked = prefix \o SubSeq(answer.path, Len(root) + 1, Len(answer.path))
       /\ IsPrefix(root, answer.path)

\* The body is dropped of a generic webhook of OpenShift, and of nothing else;
\* not of a request that the Kubernetes API gets under a path that looks like it.
WebhookBodyDropped ==
  answer.kind = "upstream" =>
    (~answer.body <=>
       /\ answer.via = "osapi" /\ Len(answer.path) = 12
       /\ answer.path[2] = "osapi" /\ answer.path[6] = "buildConfigHooks"
       /\ answer.path[12] = "generic"
       /\ \A i \in 1..12 : answer.path[i] = "/" <=> i % 2 = 1)

\* Startup comes to an end: the proxy listens, or exits, or waits for an answer
\* of the API server that never comes; it does not retry for ever.
StartupEnds == <>[](phase \in {"listening", "exited", "waiting"})
=============================================================================
