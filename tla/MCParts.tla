-------------------------------- MODULE MCParts ------------------------------
(* The parts of the server and of the pages that share no state, in one     *)
(* run: a behaviour is one of one part, the others stay as they are. A      *)
(* product of all their steps would reach the same states of each part.     *)
EXTENDS PasswordRoutes, GatewayClient, AddressPolicy, ClientKeys, LogStreams,
        MetricsStream, GithubCi, AgentSwitcher, MenuFocus, DashboardLayout,
        SettingsPage, AddAgentModal, AuditGate, TLC

VARIABLE part

CONSTANTS
    p1, p2, envHash, envPlain, devDefault,      \* PasswordRoutes
    h1, a4, private,                            \* GatewayClient
    w1, w2, gone,                               \* DashboardLayout
    k1, k2, k3, g1, g2                          \* AuditGate

(* PasswordRoutes: what the environment may set.                            *)
MCEnvironments ==
    {[hash |-> NoPassword, plain |-> envPlain, production |-> TRUE],
     [hash |-> envHash, plain |-> envPlain, production |-> FALSE]}

(* GatewayClient: URLs that pass or fail each check, and an operator's      *)
(* default at a private address.                                            *)
MCUrl(scheme, host, port) == [scheme |-> scheme, host |-> host, port |-> port]
MCDefaultUrl == MCUrl("http", private, 9500)
MCGatewayUrl ==
    {MCUrl("https", h1, 443), MCUrl("http", h1, 443), MCUrl("https", a4, 443),
     MCUrl("https", h1, 8443), MCUrl("https", private, 443), MCDefaultUrl}
MCAllowedEntry ==
    {[host |-> h1, port |-> NoPort], [host |-> a4, port |-> 443],
     [host |-> private, port |-> NoPort], [host |-> h1, port |-> 70000]}

(* AddressPolicy: the values at and beside every boundary of the registries.*)
MCIPv4 ==
    {[kind |-> "v4", parts |-> <<a, b, c, 1>>] :
        a \in {0, 9, 10, 11, 100, 126, 127, 128, 169, 172, 192, 198, 203, 223, 224, 255},
        b \in {0, 15, 16, 17, 18, 19, 20, 31, 32, 51, 63, 64, 88, 127, 128, 168, 254},
        c \in {0, 2, 99, 100, 113}}

MCIPv6 ==
    {[kind |-> "v6", parts |-> <<i, j, k, 0, 0, 0, 0, n>>] :
        i \in {100, 8191, 8192, 8193, 8194, 16383, 16384, 65152},
        j \in {0, 1, 3, 4, 31, 32, 63, 64, 511, 512, 3512, 4095, 4096, 65435},
        k \in {0, 273, 274}, n \in {1}}
    \cup {[kind |-> "v6", parts |-> <<i, j, k, 0, 0, l, m, n>>] :
        i \in {0, 100, 8194}, j \in {0, 2560, 2056, 65435}, k \in {0, 1},
        l \in {0, 65535}, m \in {0, 2560, 2056}, n \in {1, 4}}
MCHostText ==
    MCIPv4 \cup MCIPv6 \cup [kind : {"name"}, local : BOOLEAN] \cup [kind : {"malformed"}]

(* ClientKeys: addresses that differ, that are the same client, and that    *)
(* share a parent network.                                                  *)
V4(c, form) == [family |-> 4, parts |-> <<192, 0, 2, c>>, form |-> form]
V6(i, j, k, form) ==
    [family |-> 6, parts |-> <<8193, 3512, i, j, 0, 0, 0, k>>, form |-> form]
MappedV4(c) ==
    [family |-> 6, parts |-> <<0, 0, 0, 0, 0, 65535, 49152, 512 + c>>, form |-> "plain"]
MCWritten ==
    {V4(1, "plain"), V4(2, "bracketed"), MappedV4(1), V6(1, 1, 1, "bracketed"),
     V6(1, 1, 2, "zone"), V6(1, 2, 1, "plain")}
MCForged == {V4(9, "plain"), NoAddress}

(* GithubCi: one answer for each status.                                    *)
Run(completed, conclusion) == [completed |-> completed, conclusion |-> conclusion]
MCCheckRuns ==
    {{}, {Run(TRUE, "passing")}, {Run(TRUE, "passing"), Run(TRUE, "failing")},
     {Run(FALSE, "none")}, {Run(TRUE, "other")}}

(* MenuFocus: every list of up to as many rows as there are agents.         *)
MCRowLists ==
    {s \in UNION {[1 .. n -> [peer : AgentInMenu, offline : BOOLEAN]] : n \in 0 .. 2} :
        \A i, j \in DOMAIN s : s[i].peer = s[j].peer => i = j}

(* DashboardLayout: nothing, junk, the old format with a widget twice, and  *)
(* breakpoints that differ, with an item that has no place.                 *)
Placed(id) == [id |-> id, sound |-> TRUE]
MCStoredValues ==
    {NoValue, Broken, Legacy(<<Placed(w2), Placed(gone), Placed(w2)>>),
     Layouts(("md" :> <<Placed(w2), Placed(w1)>>)
             @@ ("lg" :> <<Placed(w1), [id |-> w2, sound |-> FALSE]>>))}
MCDefaultIds == <<w1>>
MCBreakpoints == <<"lg", "md">>

(* AuditGate: reports whose chains share packages and run in cycles; and    *)
(* small reports with everything else that decides.                         *)
Pk(p) == PackageVia(p)
Ad(id) == AdvisoryVia("high", id)
MCLists ==
    {<<Pk(k2)>>, <<Pk(k1)>>, <<Ad(g1)>>, <<Ad(g2)>>, <<Pk(k2), Ad(g1)>>, <<Pk(k3), Pk(k1)>>,
     <<AdvisoryVia("moderate", g2)>>}
MCNodes == {NodeOf(s, l) : s \in {"high", "moderate"}, l \in MCLists}
MCThird ==
    {NodeOf("moderate", <<Ad(g1), Pk(k1)>>), NodeOf("odd", <<JunkVia, Pk(k2)>>), Junk}
MCReports ==
    {(k1 :> a) @@ (k2 :> b) @@ (k3 :> c) : a, b \in MCNodes, c \in MCThird}
        \cup {(k1 :> a) @@ (k2 :> b) : a, b \in MCNodes}
Tally(f) == Cardinality({p \in DOMAIN f : f[p].record /\ f[p].severity = "high"})
Given(wf, list, rd, st, pr, mk, f, t) ==
    [wellFormed |-> wf, entries |-> list, readable |-> rd, status |-> st, printed |-> pr,
     marker |-> mk, vulns |-> f, tally |-> t]
Due(id, d) == [id |-> id, due |-> d]
MCInputs ==
    {Given(TRUE, <<Due(g1, 0)>>, TRUE, 1, "report", FALSE, f, Tally(f)) : f \in MCReports}
    \cup {Given(wf, list, rd, st, pr, mk, f, t) :
            wf \in BOOLEAN, rd \in BOOLEAN, st \in {0, 1, 2, 124}, pr \in {"report", "text"},
            mk \in BOOLEAN, t \in {0, 1},
            list \in {<<>>, <<Due(g1, 90)>>, <<Due(g1, 91)>>, <<Due(g1, -1)>>,
                      <<Due(g1, 0), Due(g1, 1)>>},
            f \in {k1 :> NodeOf("high", <<Ad(g1)>>),
                   k1 :> NodeOf("moderate", <<AdvisoryVia("moderate", g2)>>)}}

-----------------------------------------------------------------------------
(* A part that may start in several ways starts in one of them while it     *)
(* stays as it is.                                                          *)
PartsInit ==
    /\ part \in {"password", "gateway", "policy", "keys", "logs", "metrics", "github",
                 "switcher", "menu", "layout", "settings", "dialog", "audit"}
    /\ part # "password" => env = CHOOSE e \in Environments : TRUE
    /\ part # "switcher" => saved = NoPeer
    /\ part # "layout" => storedLayouts = NoValue
    /\ part # "settings" => held = {}
    /\ part # "audit" => input = CHOOSE in \in Inputs : TRUE
    /\ PwInit /\ GwInit /\ ApInit /\ CkInit /\ LsInit /\ MsInit /\ GhInit
    /\ SwInit /\ MfInit /\ DlInit /\ StInit /\ MdInit /\ AgInit

PartsNext ==
    /\ part' = part
    /\ IF part = "password" THEN PwNext ELSE UNCHANGED pwVars
    /\ IF part = "gateway" THEN GwNext ELSE UNCHANGED gwVars
    /\ IF part = "policy" THEN ApNext ELSE UNCHANGED apVars
    /\ IF part = "keys" THEN CkNext ELSE UNCHANGED ckVars
    /\ IF part = "logs" THEN LsNext ELSE UNCHANGED lsVars
    /\ IF part = "metrics" THEN MsNext ELSE UNCHANGED msVars
    /\ IF part = "github" THEN GhNext ELSE UNCHANGED ghVars
    /\ IF part = "switcher" THEN SwNext ELSE UNCHANGED swVars
    /\ IF part = "menu" THEN MfNext ELSE UNCHANGED mfVars
    /\ IF part = "layout" THEN DlNext ELSE UNCHANGED dlVars
    /\ IF part = "settings" THEN StNext ELSE UNCHANGED stVars
    /\ IF part = "dialog" THEN MdNext ELSE UNCHANGED mdVars
    /\ IF part = "audit" THEN AgNext ELSE UNCHANGED agVars

partsVars ==
    <<part, pwVars, gwVars, apVars, ckVars, lsVars, msVars, ghVars, swVars, mfVars, dlVars,
      stVars, mdVars, agVars>>
PartsSpec == PartsInit /\ [][PartsNext]_partsVars

(* The state of the part that moves is of its type; the others are as they  *)
(* start.                                                                   *)
PartsTypeOK ==
    CASE part = "password" -> PwTypeOK
      [] part = "gateway"  -> GwTypeOK
      [] part = "logs"     -> LsTypeOK
      [] part = "metrics"  -> MsTypeOK
      [] part = "github"   -> GhTypeOK
      [] part = "switcher" -> SwTypeOK
      [] part = "menu"     -> MfTypeOK
      [] part = "layout"   -> DlTypeOK
      [] part = "settings" -> StTypeOK
      [] part = "dialog"   -> MdTypeOK
      [] part = "audit"    -> AgTypeOK
      [] OTHER             -> TRUE
==============================================================================
