---------------------------- MODULE MCProxyMain ----------------------------
(* Option values and paths for TLC. *)
EXTENDS ProxyMain

Url(scheme, host, path) == [scheme |-> scheme, host |-> host, path |-> path]

\* None, a bare host:port, URLs without, with an empty and with a path, one of
\* them the path of the OpenShift API, and "name:8080", whose name is taken for
\* a scheme
MCMasters ==
  {NoMaster,
   Url("", <<"127.0.0.1:8080">>, <<>>), Url("", <<"127.0.0.1:8080">>, Slash),
   Url("http", <<"master">>, <<>>), Url("https", <<"master">>, Slash),
   Url("https", <<"master">>, <<"/", "base">>),
   Url("https", <<"master">>, <<"/", "osapi">>), Url("name", <<>>, <<>>)}

MCApiPrefixes    == {<<"/", "api", "/">>, <<"/", "api">>, <<"/", "api", "/", "v1", "/">>}
MCOsApiPrefixes  == {<<>>, <<"/", "osapi", "/">>, <<"/", "api", "/">>,
                     <<"/", "osapi", "/", "v1", "/">>}
MCStaticPrefixes == {Slash, <<"/", "api", "/">>, <<"/", "osconsole", "/">>}

Hook == <<"/", "osapi", "/", "v1", "/", "buildConfigHooks", "/", "n", "/", "s", "/">>
ApiHook == <<"/", "api", "/", "buildConfigHooks", "/", "n", "/", "s", "/", "generic">>

MCPaths ==
  {Slash, <<"/", "api">>, <<"/", "api", "/">>, <<"/", "api", "/", "v1">>,
   <<"/", "api", "x">>, <<"/", "/", "api", "/">>, <<"/", "api", "/", "v1", "/", "pods">>,
   <<"/", "osapi", "/", "v1", "/", "builds">>, ConfigJs,
   <<"/", "osconsole", "/", "index.html">>,
   Hook \o <<"generic">>, Hook \o <<"github">>, Hook \o <<"generic", "/">>,
   Hook \o <<"x", "/", "generic">>, ApiHook}
=============================================================================
