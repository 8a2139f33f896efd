---------------------------- MODULE ModulePlanner -----------------------------
(* From the modules an operator ticks to the phases a scan runs:               *)
(* normalizeRequestedModules and PlanModules when the task is created, the      *)
(* stripping of tokens when it starts, and the grouping of adjacent modules     *)
(* when phases may be parallel.                                                 *)
EXTENDS Naturals, Sequences, FiniteSets, Functions
CONSTANT MaxSelected  \* bound: length of a request
ASSUME PlannerAssumption == MaxSelected \in Nat

AllModules == <<
    "subdomain_enum", "http_probe", "js_analysis", "js_endpoints", "param_discovery",
    "headless_crawl", "timemachine", "param_reflection", "paramfuzz", "dir_discovery",
    "backup_discovery", "open_redirect", "nuclei", "xss", "vuln_scan", "sqli", "ssrf", "lfi",
    "ssti", "csti", "cmdi", "passive", "takeover", "blh", "csrf", "cors", "exposure", "intel",
    "oast", "xxe", "idor", "jwt", "authz", "ato", "nosqli", "cache_poison", "origin_ip",
    "shodan", "race", "smuggling", "verify", "monitor">>
\* Words of a request that are no web module, some of each kind; unknown and retired
\* ones are refused before.  The planner passes the first ones through; the others it
\* takes for modules that it does not know the place of.
Passthrough == {"speed_slow", "speed_normal", "network", "full_ports"}
Switches == <<"asn_discovery", "no_asn_discovery", "no_subdomain_brute", "single_endpoint">>
Modules == Range(AllModules)
Words == Modules \union Passthrough \union Range(Switches)

Params == {"http_probe", "js_analysis", "js_endpoints", "param_discovery", "param_reflection"}
ParamDetectors == {"sqli", "nosqli", "lfi", "ssti", "csti", "xss", "vuln_scan", "idor", "jwt",
                   "open_redirect", "race", "authz", "ato", "ssrf", "xxe", "cmdi", "oast", "blh"}
WebDetectors == {"cors", "cache_poison", "exposure", "intel", "passive", "csrf", "smuggling",
                 "nuclei", "origin_ip", "shodan", "dir_discovery", "backup_discovery", "takeover"}
Detectors == ParamDetectors \union WebDetectors \union {"monitor"}
\* moduleRequires.
Requires(m) ==
    CASE m \in ParamDetectors -> Params
      [] m \in WebDetectors   -> {"http_probe"}
      [] m = "monitor"        -> {"http_probe", "js_analysis"}
      [] OTHER                -> {}

\* A list is a function on some numbers, read in their order: a sequence is one, and what
\* is taken out of it leaves a gap.
Those(list, words) == Restrict(list, {i \in DOMAIN list : list[i] \in words})
\* A list with no number above n, and another one behind it.
Followed(list, n, rest) ==
    [i \in DOMAIN list \union {n + k : k \in DOMAIN rest} |->
         IF i <= n THEN list[i] ELSE rest[i - n]]

\* normalizeRequestedModules: the first of several equal words counts.
Normalized(request) ==
    Restrict(request, {i \in DOMAIN request : \A j \in 1..(i - 1) : request[j] # request[i]})

Planned(selected) ==
    Range(selected) \union {"verify"} \union UNION {Requires(m) : m \in Range(selected)}
Canonical == AllModules \o Switches
InOrder(modules) == Those(Canonical, modules)
\* A bug: what was ticked stays where it was, what it needs comes after it.
PlanModulesUnsorted(selected) ==
    IF Range(selected) \cap Detectors = {} THEN selected
    ELSE Followed(selected, MaxSelected, InOrder(Planned(selected) \ Range(selected)))
\* PlanModules: without a detector the request is left as it is.
PlanModules(selected) ==
    IF Range(selected) \cap Detectors = {} THEN selected
    ELSE Followed(InOrder(Planned(selected) \ Passthrough), Len(Canonical),
                  Those(selected, Passthrough))

\* executeTask: tokens are taken out, all but speed_normal, and enumeration when the
\* scan is confined to the URLs it was given.
Stripped(modules, haveUrls) ==
    LET confined == haveUrls /\ "single_endpoint" \in Range(modules) IN
    Those(modules, {m \in Modules \union {"speed_normal"} : ~(confined /\ m = "subdomain_enum")})
Executed(request, haveUrls) == Stripped(PlanModules(Normalized(request)), haveUrls)

\* parallelGroup, and parallelPhaseIndices: only neighbours of one group share a phase.
Group(m) ==
    CASE m \in {"js_analysis", "param_discovery"} -> 1
      [] m \in {"dir_discovery", "backup_discovery"} -> 3
      [] m \in {"nosqli", "ssrf", "lfi", "ssti", "cmdi", "xxe", "cache_poison", "race", "idor"} -> 2
      [] OTHER -> 0
StartsPhase(modules, i) ==
    \/ Group(modules[i]) = 0
    \/ \A j \in DOMAIN modules : j < i =>
           \/ Group(modules[j]) # Group(modules[i])
           \/ \E k \in DOMAIN modules : j < k /\ k < i
PhaseOf(modules, i) == Cardinality({j \in DOMAIN modules : j <= i /\ StartsPhase(modules, j)})

--------------------------------------------------------------------------------
(* A request as it is put together. *)
VARIABLE request
PlannerInit == request = <<>>
Tick == /\ Len(request) < MaxSelected
        /\ \E w \in Words : request' = Append(request, w)
PlannerNext == Tick
PlannerSpec == PlannerInit /\ [][PlannerNext]_request

\* Whatever is ticked and in whatever order, a phase of the scan never starts before
\* the phases that fill the tables its detectors read have ended, findings are verified
\* after the detectors that make them, each module runs once, and nothing runs that was
\* neither ticked nor is needed: no second detector, and no enumeration of subdomains.
PlanFeedsDetectors ==
    \A haveUrls \in BOOLEAN :
        LET run == Executed(request, haveUrls)
            before(m, n) == \E i, j \in DOMAIN run :
                               run[i] = m /\ run[j] = n /\ PhaseOf(run, i) < PhaseOf(run, j) IN
        /\ \A i, j \in DOMAIN run : run[i] = run[j] => i = j
        /\ \A m \in Range(run) \cap Detectors :
              /\ m \in Range(request)
              /\ \A c \in Requires(m) : before(c, m)
              /\ m # "monitor" => before(m, "verify")
        /\ "subdomain_enum" \in Range(run) => "subdomain_enum" \in Range(request)
        /\ Range(request) \cap Modules \subseteq Range(run) \union {"subdomain_enum"}
================================================================================
