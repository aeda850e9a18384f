----------------------------- MODULE MCInjection -----------------------------
(***************************************************************************)
(* Pods of an application and a proxy, in either order, with command lines *)
(* of every kind of word, on an image with a shell and on one without.     *)
(***************************************************************************)
EXTENDS Injection

MCKind == [w \in {"app", "serve", "sh", "-c"} |-> "plain"]
          @@ [w \in {"a b", ScriptText} |-> "blank"]
          @@ ("" :> "empty") @@ ("a;b" :> "separator") @@ ("#fff" :> "comment")
          @@ ("*.log" :> "other") @@ (">x" :> "other") @@ ("(" :> "broken")

MCReads == ("*.log" :> <<"a.log", "b.log">>) @@ (">x" :> <<>>)

Shellful  == [shell |-> TRUE, entrypoint |-> <<"app">>, cmd |-> <<"serve">>]
MCImage   == [alpine |-> Shellful, distroless |-> [Shellful EXCEPT !.shell = FALSE],
              logcloak |-> [shell |-> FALSE, entrypoint |-> <<"sidecar">>, cmd |-> <<>>]]
MCProxies == {"istio-proxy"}

Container(n, i, c, a) ==
    [name |-> n, image |-> i, command |-> c, args |-> a, script |-> <<>>, mounts |-> {}]

Proxy == Container("istio-proxy", "distroless", <<>>, <<>>)
Apps  == {Container("web", "alpine", c, a) :
             c \in {<<>>, <<"app">>, <<"app", "a b">>},
             a \in {<<>>, <<"serve", "a b">>, <<"", "serve">>, <<"a;b", "serve">>,
                    <<"#fff", "(">>, <<"*.log">>, <<">x", "serve">>, <<"serve", "(">>}}
         \cup {Container("web", "distroless", <<>>, <<>>)}

MCManifest ==
    {[skip |-> FALSE, exclude |-> {}, containers |-> cs, volumes |-> v, inits |-> i,
      defaultContainer |-> ""] :
        cs \in {<<Proxy, a>> : a \in Apps} \cup {<<a, Proxy>> : a \in Apps},
        v \in {<<>>}, i \in {<<>>, <<"migrate">>}}
    \cup
    {[skip |-> s, exclude |-> {"job"}, volumes |-> <<"data">>, inits |-> <<>>,
      containers |-> <<Container("job", "alpine", <<"app">>, <<"a b">>), a>>,
      defaultContainer |-> "web"] : s \in BOOLEAN, a \in Apps}
=============================================================================
