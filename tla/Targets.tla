------------------------------ MODULE Targets -------------------------------
(***************************************************************************)
(* Target and listen specifications (pkg/forwardportid.go) and how a POST  *)
(* resolves its path to an address (WhetHandler, pkg/server.go).           *)
(*                                                                         *)
(* A name, a path or a port range is the sequence of tokens that           *)
(* strings.Split(..., "-") makes of it; strconv.Atoi succeeds for the      *)
(* tokens in the domain of Number.                                         *)
(***************************************************************************)
EXTENDS Integers, Sequences

CONSTANTS
  Token,   \* what can stand between two hyphens
  Number   \* the value of those that are numbers

ASSUME TargetsAssumption ==
  DOMAIN Number \subseteq Token /\ \A t \in DOMAIN Number : Number[t] \in Nat

IsNumber(t) == t \in DOMAIN Number

-----------------------------------------------------------------------------
(* Targets: name=host:port or name=host:first-last *)

\* A third part of the range is ignored.
FirstPort(spec) == Number[spec.ports[1]]
LastPort(spec)  == Number[spec.ports[IF Len(spec.ports) = 1 THEN 1 ELSE 2]]

TargetOk(spec) ==
  /\ \A i \in {1, 2} \cap DOMAIN spec.ports : IsNumber(spec.ports[i])
  /\ FirstPort(spec) <= LastPort(spec)

\* FAULT: the last port is left out.
ParseTargetExclusive(spec) ==
  [host |-> spec.host, start |-> FirstPort(spec),
   count |-> LastPort(spec) - FirstPort(spec)]

\* ForwardTargetPort; the name is kept whole, hyphens included.
ParseTarget(spec) ==
  [host |-> spec.host, start |-> FirstPort(spec),
   count |-> LastPort(spec) - FirstPort(spec) + 1]

\* Of the specifications of one name, the one that is entered last stays.
Wins(specs, i) == \A j \in DOMAIN specs : specs[j].name = specs[i].name => j <= i

\* ParseForwardTargetPortsFromStringSlice, when none of them is malformed: one
\* error fails them all.
ParseTargets(specs) ==
  [n \in {specs[i].name : i \in DOMAIN specs} |->
     ParseTarget(specs[CHOOSE i \in DOMAIN specs : specs[i].name = n /\ Wins(specs, i)])]

-----------------------------------------------------------------------------
(* Listeners: name=host:port or name-index=host:port *)

\* With two parts the index is taken from the first of them, which is also
\* the name; so the name would have to be a number.
ListenOk(name) == Len(name) = 1 \/ (Len(name) = 2 /\ IsNumber(name[1]))

\* ListenTargetPort.TargetName.  PortIndex is set but nothing reads it.
ListenTarget(name) == name[1]

\* The listeners a client opens, if none of its specifications is malformed:
\* of those for one target, the one given last.
Opened(names) ==
  {i \in DOMAIN names :
     /\ \A j \in DOMAIN names : ListenOk(names[j])
     /\ \A j \in DOMAIN names : ListenTarget(names[j]) = ListenTarget(names[i]) => j <= i}

-----------------------------------------------------------------------------
(* The path of a POST *)

Offset(path) == IF Len(path) = 2 THEN Number[path[2]] ELSE 0

\* FAULT: the end of the range is tested with >.
InRangeOffByOne(target, k) == k = 0 \/ k <= target.count

\* if portoffset < 0 || (portoffset != 0 && portoffset >= target.PortCount);
\* it is never negative, a minus sign being a hyphen.
InRange(target, k) == k = 0 \/ k < target.count

\* Otherwise the answer is "Invalid target".  The target is looked up under
\* the first part alone.
Found(targets, path) ==
  /\ Len(path) = 1 \/ (Len(path) = 2 /\ IsNumber(path[2]))
  /\ <<path[1]>> \in DOMAIN targets
  /\ InRange(targets[<<path[1]>>], Offset(path))

\* targetAddr
Address(targets, path) ==
  LET target == targets[<<path[1]>>] IN
  [host |-> target.host, port |-> target.start + Offset(path)]
=============================================================================
