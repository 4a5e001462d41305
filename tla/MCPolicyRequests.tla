-------------------------- MODULE MCPolicyRequests --------------------------
(* A web service in one namespace on top of a database service in another,
   which its consumers share; an administrator, one team that consumes both
   and one that owns the first.*)
EXTENDS PolicyRequests

Label(name, value) == name :> value

MCUsers ==
  [admin |-> [admin |-> TRUE, labels |-> NoLabels],
   alice |-> [admin |-> FALSE, labels |-> Label("team", "a")],
   bob   |-> [admin |-> FALSE, labels |-> Label("team", "b")]]

MCTargets ==
  [c1 |-> [ns |-> "", name |-> "c1", suffix |-> ""],
   c2 |-> [ns |-> "system", name |-> "c2", suffix |-> "x"]]

Here(name) == [ns |-> "", name |-> name]
In(ns, name) == [ns |-> ns, name |-> name]
Main(kind, name) == [kind |-> kind, ns |-> "main", name |-> name]
Ops(kind, name) == [kind |-> kind, ns |-> "ops", name |-> name]
System(kind, name) == [kind |-> kind, ns |-> SystemNS, name |-> name]

Is(label) == [op |-> "is", label |-> label, value |-> ""]
Eq(label, value) == [op |-> "eq", label |-> label, value |-> value]
Ne(label, value) == [op |-> "ne", label |-> label, value |-> value]
All(e) == [NoCriteria EXCEPT !.all = <<e>>]
AnyOf(es) == [NoCriteria EXCEPT !.any = es]
NoneOf(e) == [NoCriteria EXCEPT !.none = <<e>>]

Text(value) == [op |-> "text", path |-> value]
OfLabel(name) == [op |-> "label", path |-> name]
OfUser(name) == [op |-> "user", path |-> name]
Of(path) == [op |-> "discovery", path |-> path]

Set(name, value) == [NoChange EXCEPT !.set = Label(name, value)]

Code(name, params, discovery, dependencies, criteria) ==
  [name |-> name, criteria |-> criteria, code |-> TRUE,
   contract |-> Here(""), dependencies |-> dependencies,
   params |-> params, discovery |-> discovery]

Consumes(name, contract, dependencies) ==
  [name |-> name, criteria |-> NoCriteria, code |-> FALSE,
   contract |-> contract, dependencies |-> dependencies,
   params |-> NoParams, discovery |-> NoParams]

Context(name, criteria, service, keys) ==
  [name |-> name, criteria |-> criteria, change |-> NoChange,
   service |-> service, keys |-> keys]

Rule(weight, criteria, change, dependency, ingress) ==
  [weight |-> weight, criteria |-> criteria, change |-> change,
   dependency |-> dependency, ingress |-> ingress]

Dependency(user, contract, labels) ==
  [user |-> user, contract |-> contract, labels |-> labels]

(* The first version has to know where its database is.                    *)
FrontParams(version) ==
  ("version" :> Text(version))
    @@ (IF version = "v1" THEN "db" :> Of(<<"store", "pg", "at">>)
        ELSE NoParams)

Web(version) ==
  [components |->
     <<Code("front", FrontParams(version), NoParams, <<"store">>,
            NoneOf(Eq("tier", "none"))),
       Consumes("store", In("ops", "db"), <<>>),
       Code("trace", NoParams, NoParams, <<>>, All(Is("debug")))>>]

Db == [components |->
         <<Code("pg", "size" :> OfLabel("size"), "at" :> Of(<<"Instance">>),
                <<>>, NoCriteria)>>]

WebContract ==
  [change |-> Set("tier", "web"),
   contexts |-> <<Context("prod", All(Eq("env", "prod")), Here("web"), <<>>),
                  Context("team", NoneOf(Eq("env", "none")), Here("web"),
                          <<OfUser("team")>>)>>]

DbContract(service) ==
  [change |-> NoChange,
   contexts |-> <<Context("shared", NoCriteria, service, <<>>)>>]

Consumers(team, namespaces) ==
  [criteria |-> All(Eq("team", team)),
   roles |-> ServiceConsumer :> namespaces]

Base ==
  (System("cluster", "c1") :> [type |-> "kubernetes", config |-> ""])
  @@ (Main("service", "web") :> Web("v1"))
  @@ (Ops("service", "db") :> Db)
  @@ (Main("contract", "web") :> WebContract)
  @@ (Ops("contract", "db") :> DbContract(Here("db")))
  @@ (System("rule", "place") :>
        Rule(1, NoCriteria, Set("target", "c1"), "", ""))
  @@ (Main("rule", "deny") :>
        Rule(1, All(Eq("env", "test")), NoChange, "reject", ""))
  @@ (Main("rule", "admit") :> Rule(2, All(Eq("team", "a")), NoChange, "allow", ""))
  @@ (System("rule", "close") :>
        Rule(3, AnyOf(<<Eq("team", "a"), Eq("env", "prod")>>), NoChange, "",
             "reject"))
  @@ (System("aclrule", "consumers") :> Consumers("a", {"main", "ops"}))
  @@ (System("aclrule", "owners") :>
        [criteria |-> All(Eq("team", "b")),
         roles |-> NamespaceAdmin :> {"main"} @@ ServiceConsumer :> {"ops"}])
  @@ (Main("dependency", "one") :>
        Dependency("alice", Here("web"), Label("size", "s")))

R == INSTANCE Resolver WITH Targets <- MCTargets

MCResolutionOf(policyResolved, rules, key) ==
  R!ResolveDependency(policyResolved, rules, key)

MCInitialPolicies == {Base}

Add(key, body) == [key |-> key, body |-> body]

Request(kind, user, noop, objects) ==
  [kind |-> kind, user |-> user, noop |-> noop, objects |-> objects]

Two(labels) == Add(Main("dependency", "two"), Dependency("bob", Here("web"), labels))

MCRequests ==
  { (* the database that both need is to have one size *)
    Request("update", "bob", FALSE, {Two(Label("size", "l"))}),
    Request("update", "bob", FALSE,
            {Two(Label("size", "s") @@ Label("debug", "maybe"))}),
    Request("update", "bob", FALSE,
            {Add(Main("service", "web"), Web("v2")), Two(Label("size", "s"))}),
    Request("update", "alice", FALSE,
            {Add(Main("dependency", "three"),
                 Dependency("alice", In("ops", "db"), Label("size", "s")
                                             @@ Label("env", "test")))}),
    Request("update", "bob", TRUE, {Add(Main("service", "web"), Web("v2"))}),
    Request("update", "alice", FALSE,
            {Add(Main("dependency", "three"),
                 Dependency("alice", Here("web"), Label("size", "s")
                              @@ Label("env", "prod")
                              @@ Label("debug", "true")))}),
    (* the administrator changes who may consume *)
    Request("update", "admin", FALSE,
            {Add(System("aclrule", "consumers"),
                 Consumers("c", {"main", "ops"})),
             Two(Label("size", "l"))}),
    Request("update", "admin", FALSE,
            {Add(System("aclrule", "consumers"), Consumers("a", {"main"}))}),
    Request("delete", "admin", FALSE,
            {Add(System("aclrule", "consumers"), "")}),
    Request("delete", "admin", FALSE,
            {Add(System("cluster", "c1"), ""),
             Add(System("aclrule", "owners"), "")}),
    (* one who would be administrator *)
    Request("update", "bob", FALSE,
            {Add(System("aclrule", "owners"),
                 [criteria |-> All(Ne("team", "a")),
                  roles |-> DomainAdmin :> {"main"}]),
             Add(System("rule", "place"),
                 Rule(2, NoCriteria, Set("target", "c2"), "", ""))}),
    (* references to nothing, a service that needs itself, a service of
       another namespace, a user who does not exist *)
    Request("delete", "admin", FALSE, {Add(Ops("contract", "db"), "")}),
    Request("update", "admin", FALSE,
            {Add(Ops("service", "db"),
                 [components |-> <<Consumes("again", In("main", "web"), <<>>)>>])}),
    Request("update", "admin", FALSE,
            {Add(Ops("contract", "db"), DbContract(In("main", "web")))}),
    Request("update", "bob", FALSE,
            {Add(Main("dependency", "four"),
                 Dependency("ghost", Here("web"), NoLabels))}),
    Request("update", "admin", FALSE,
            {Add(System("cluster", "c2"),
                 [type |-> "kubernetes", config |-> "y"]),
             Add(System("rule", "place"),
                 Rule(2, NoCriteria, Set("target", "c2"), "", ""))}),
    Request("update", "admin", FALSE,
            {Add(System("cluster", "c1"),
                 [type |-> "kubernetes", config |-> "y"])}),
    Request("delete", "alice", FALSE, {Add(Main("dependency", "one"), "")}) }

=============================================================================
