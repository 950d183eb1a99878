----------------------------- MODULE Config_proofs -----------------------------
(***************************************************************************)
(* Proofs about the checks of the confs, for any number of keys that are   *)
(* not the template's.                                                     *)
(***************************************************************************)
EXTENDS Config, SequenceTheorems, WellFoundedInduction, TLAPS

\* A nonempty set of numbers has a smallest member.
LEMMA Smallest ==
  ASSUME NEW T \in SUBSET Nat, T # {}
  PROVE  Min(T) \in T /\ \A y \in T : Min(T) <= y
<1> DEFINE R == OpToRel(<, Nat)
<1>1. IsWellFoundedOn(R, Nat)
  BY NatLessThanWellFounded
<1>2. \A y, x \in Nat : y < x => <<y, x>> \in R
  BY DEF OpToRel
<1> HIDE DEF R
<1>3. PICK x \in T : \A y \in T : ~(<<y, x>> \in R)
  BY <1>1, WFMin
<1>4. \A y \in T : x <= y
  <2> SUFFICES ASSUME NEW y \in T PROVE x <= y
    OBVIOUS
  <2>1. x \in Nat /\ y \in Nat /\ ~(y < x)
    BY <1>2, <1>3
  <2> QED BY <2>1
<1>5. \E m \in T : \A y \in T : m <= y
  BY <1>4
<1> QED BY <1>5 DEF Min

\* A check accepts when every test succeeds, and else ends as one of those
\* that do not.
LEMMA OutcomeCases ==
  ASSUME NEW R, "accepted" \notin R, NEW tests \in Seq(BOOLEAN \X R)
  PROVE  \/ Outcome(tests) = "accepted" /\ \A i \in DOMAIN tests : tests[i][1]
         \/ /\ Outcome(tests) # "accepted"
            /\ Outcome(tests) \in R
            /\ \E i \in DOMAIN tests : ~tests[i][1] /\ Outcome(tests) = tests[i][2]
<1> DEFINE failed == {i \in DOMAIN tests : ~tests[i][1]}
<1>1. CASE failed = {}
  BY <1>1 DEF Outcome
<1>2. CASE failed # {}
  <2>1. failed \in SUBSET Nat
    OBVIOUS
  <2>2. Min(failed) \in failed
    BY <1>2, <2>1, Smallest
  <2>3. Outcome(tests) = tests[Min(failed)][2]
    BY <1>2 DEF Outcome
  <2>4. tests[Min(failed)] \in BOOLEAN \X R
    BY <2>2
  <2>5. Outcome(tests) # "accepted" /\ Outcome(tests) \in R
    BY <2>3, <2>4
  <2> QED BY <2>2, <2>3, <2>5
<1> QED BY <1>1, <1>2

\* How a command ends that does not accept.
Failures == {"refused", "raised"}

\* What the tests of the dag come to.
DagChecked(c) == c.version # "number" /\ c.dag = "sequential" /\ c.nodes = "good"

LEMMA DagTestsChecked ==
  ASSUME NEW c
  PROVE  /\ DagTests(c) \in Seq(BOOLEAN \X Failures) /\ Len(DagTests(c)) = 4
         /\ (\A i \in 1 .. 4 : DagTests(c)[i][1]) <=> DagChecked(c)
<1> DEFINE D == DagTests(c)
<1>1. /\ <<c.version # "number", "raised">> \in BOOLEAN \X Failures
      /\ <<c.dag = "sequential", "refused">> \in BOOLEAN \X Failures
      /\ <<c.nodes # "absent", "raised">> \in BOOLEAN \X Failures
      /\ <<c.nodes = "good", "refused">> \in BOOLEAN \X Failures
  BY DEF Failures
<1>2. D \in Seq(BOOLEAN \X Failures) /\ Len(D) = 4
  BY <1>1 DEF DagTests
<1>3. /\ D[1][1] <=> c.version # "number"
      /\ D[2][1] <=> c.dag = "sequential"
      /\ D[3][1] <=> c.nodes # "absent"
      /\ D[4][1] <=> c.nodes = "good"
  BY DEF DagTests
<1>4. (\A i \in 1 .. 4 : D[i][1]) <=> D[1][1] /\ D[2][1] /\ D[3][1] /\ D[4][1]
  <2> HIDE DEF D
  <2>1. 1 .. 4 = {1, 2, 3, 4}
    OBVIOUS
  <2> QED BY <2>1
<1>5. D[1][1] /\ D[2][1] /\ D[3][1] /\ D[4][1] <=> DagChecked(c)
  BY <1>3 DEF DagChecked
<1> QED BY <1>2, <1>4, <1>5

\* Four tests behind others.
LEMMA FourMore ==
  ASSUME NEW S, NEW s \in Seq(S), NEW t \in Seq(S), Len(t) = 4
  PROVE  /\ s \o t \in Seq(S) /\ Len(s \o t) = Len(s) + 4 /\ Len(s) \in Nat
         /\ \A i \in 1 .. Len(s) + 4 : (s \o t)[i] = IF i <= Len(s) THEN s[i] ELSE t[i - Len(s)]
<1>1. Len(s) \in Nat
  OBVIOUS
<1>2. s \o t \in Seq(S)
  BY ConcatProperties
<1>3. Len(s \o t) = Len(s) + Len(t)
  BY ConcatProperties
<1>4. \A i \in 1 .. Len(s) + Len(t) : (s \o t)[i] = IF i <= Len(s) THEN s[i] ELSE t[i - Len(s)]
  BY ConcatProperties
<1> QED BY <1>1, <1>2, <1>3, <1>4

\* The checks of the models, which can only refuse, and then the dag.
LEMMA DagLast ==
  ASSUME NEW s \in Seq(BOOLEAN \X {"refused"}), NEW c
  PROVE  /\ Outcome(s \o DagTests(c)) = "accepted"
              <=> (\A i \in 1 .. Len(s) : s[i][1]) /\ DagChecked(c)
         /\ DagChecked(c) => Outcome(s \o DagTests(c)) \in {"accepted", "refused"}
         /\ Outcome(s \o DagTests(c)) \in {"accepted", "refused", "raised"}
<1> DEFINE t == DagTests(c)
<1> DEFINE both == s \o t
<1>1. t \in Seq(BOOLEAN \X Failures) /\ Len(t) = 4 /\ ((\A i \in 1 .. 4 : t[i][1]) <=> DagChecked(c))
  BY DagTestsChecked
<1> HIDE DEF t
<1>2. s \in Seq(BOOLEAN \X Failures)
  BY DEF Failures
<1>3. /\ both \in Seq(BOOLEAN \X Failures)
      /\ Len(both) = Len(s) + 4 /\ Len(s) \in Nat
      /\ \A i \in 1 .. Len(s) + 4 : both[i] = IF i <= Len(s) THEN s[i] ELSE t[i - Len(s)]
  BY <1>1, <1>2, FourMore
<1> HIDE DEF both
<1> SUFFICES /\ Outcome(both) = "accepted" <=> (\A i \in 1 .. Len(s) : s[i][1]) /\ DagChecked(c)
             /\ DagChecked(c) => Outcome(both) \in {"accepted", "refused"}
             /\ Outcome(both) \in {"accepted", "refused", "raised"}
  BY DEF both, t
<1>4. DOMAIN both = 1 .. Len(s) + 4
  BY <1>3
<1>5. ASSUME NEW i \in 1 .. Len(s) PROVE i \in DOMAIN both /\ both[i] = s[i]
  BY <1>3, <1>4
<1>6. ASSUME NEW i \in 1 .. 4 PROVE i + Len(s) \in DOMAIN both /\ both[i + Len(s)] = t[i]
  <2>1. i + Len(s) \in 1 .. Len(s) + 4 /\ ~(i + Len(s) <= Len(s)) /\ (i + Len(s)) - Len(s) = i
    BY <1>3
  <2> QED BY <1>3, <1>4, <2>1
<1>7. ASSUME NEW i \in DOMAIN both
      PROVE  \/ i \in 1 .. Len(s) /\ both[i] = s[i]
             \/ i - Len(s) \in 1 .. 4 /\ both[i] = t[i - Len(s)]
  BY <1>3, <1>4
<1>8. CASE Outcome(both) = "accepted" /\ \A i \in DOMAIN both : both[i][1]
  <2>1. ASSUME NEW i \in 1 .. Len(s) PROVE s[i][1]
    BY <1>5, <1>8
  <2>2. ASSUME NEW i \in 1 .. 4 PROVE t[i][1]
    BY <1>6, <1>8
  <2> QED BY <1>1, <1>8, <2>1, <2>2
<1>9. CASE /\ Outcome(both) # "accepted" /\ Outcome(both) \in Failures
           /\ \E i \in DOMAIN both : ~both[i][1] /\ Outcome(both) = both[i][2]
  <2>1. PICK i \in DOMAIN both : ~both[i][1] /\ Outcome(both) = both[i][2]
    BY <1>9
  <2>2. CASE i \in 1 .. Len(s) /\ both[i] = s[i]
    <3>1. s[i] \in BOOLEAN \X {"refused"}
      BY <2>2
    <3>2. Outcome(both) = "refused"
      BY <2>1, <2>2, <3>1
    <3>3. ~s[i][1]
      BY <2>1, <2>2
    <3> QED BY <2>2, <3>2, <3>3
  <2>3. CASE i - Len(s) \in 1 .. 4 /\ both[i] = t[i - Len(s)]
    <3>1. ~DagChecked(c)
      BY <1>1, <2>1, <2>3
    <3>2. Outcome(both) # "accepted" /\ Outcome(both) \in {"refused", "raised"}
      BY <1>9 DEF Failures
    <3> QED BY <3>1, <3>2
  <2> QED BY <1>7, <2>2, <2>3
<1>10. "accepted" \notin Failures
  BY DEF Failures
<1>11. \/ Outcome(both) = "accepted" /\ \A i \in DOMAIN both : both[i][1]
       \/ /\ Outcome(both) # "accepted" /\ Outcome(both) \in Failures
          /\ \E i \in DOMAIN both : ~both[i][1] /\ Outcome(both) = both[i][2]
  BY <1>3, <1>10, OutcomeCases
<1> QED BY <1>8, <1>9, <1>11

LEMMA ThreeRefuse ==
  ASSUME NEW p \in BOOLEAN, NEW q \in BOOLEAN, NEW r \in BOOLEAN, NEW c
  PROVE  LET outcome == Outcome(<< <<p, "refused">>, <<q, "refused">>, <<r, "refused">> >> \o DagTests(c))
         IN  /\ outcome = "accepted" <=> p /\ q /\ r /\ DagChecked(c)
             /\ outcome \in {"accepted", "refused", "raised"}
<1> DEFINE s == << <<p, "refused">>, <<q, "refused">>, <<r, "refused">> >>
<1>1. s \in Seq(BOOLEAN \X {"refused"}) /\ Len(s) = 3
  OBVIOUS
<1>2. s[1][1] = p /\ s[2][1] = q /\ s[3][1] = r
  OBVIOUS
<1> HIDE DEF s
<1>3. /\ Outcome(s \o DagTests(c)) = "accepted" <=> (\A i \in 1 .. Len(s) : s[i][1]) /\ DagChecked(c)
      /\ Outcome(s \o DagTests(c)) \in {"accepted", "refused", "raised"}
  BY <1>1, DagLast
<1>4. 1 .. Len(s) = {1, 2, 3}
  BY <1>1
<1>5. (\A i \in 1 .. Len(s) : s[i][1]) <=> p /\ q /\ r
  BY <1>2, <1>4
<1> QED BY <1>3, <1>5 DEF s

LEMMA FourRefuse ==
  ASSUME NEW p \in BOOLEAN, NEW q \in BOOLEAN, NEW r \in BOOLEAN, NEW o \in BOOLEAN, NEW c
  PROVE  LET outcome == Outcome(<< <<p, "refused">>, <<q, "refused">>, <<r, "refused">>, <<o, "refused">> >>
                                  \o DagTests(c))
         IN  /\ outcome = "accepted" <=> p /\ q /\ r /\ o /\ DagChecked(c)
             /\ DagChecked(c) => outcome \in {"accepted", "refused"}
<1> DEFINE s == << <<p, "refused">>, <<q, "refused">>, <<r, "refused">>, <<o, "refused">> >>
<1>1. s \in Seq(BOOLEAN \X {"refused"}) /\ Len(s) = 4
  OBVIOUS
<1>2. s[1][1] = p /\ s[2][1] = q /\ s[3][1] = r /\ s[4][1] = o
  OBVIOUS
<1> HIDE DEF s
<1>3. /\ Outcome(s \o DagTests(c)) = "accepted" <=> (\A i \in 1 .. Len(s) : s[i][1]) /\ DagChecked(c)
      /\ DagChecked(c) => Outcome(s \o DagTests(c)) \in {"accepted", "refused"}
  BY <1>1, DagLast
<1>4. 1 .. Len(s) = {1, 2, 3, 4}
  BY <1>1
<1>5. (\A i \in 1 .. Len(s) : s[i][1]) <=> p /\ q /\ r /\ o
  BY <1>2, <1>4
<1> QED BY <1>3, <1>5 DEF s

-----------------------------------------------------------------------------
\* Every key has a value of its domain.
Typed(c) == \A k \in Keys : c[k] \in Domains[k]

\* What grpst deploy asks of the confs.
Deployable(c) ==
  /\ c.models # "absent" /\ ModelChecked(c)
  /\ c.inferer_type \in Builtin => c.inferer_path # "unset"
  /\ BatchingChecked(c) /\ DagChecked(c)

Accepted(c) ==
  Deployable(c) /\ InterfaceChecked(c) /\ LimitsChecked(c) /\ GpuChecked(c) /\ LogChecked(c)

Served == {"load", "loadInference", "monitor", "models", "dag", "main", "bind", "routes",
           "started", "silent", "critical"}

\* What the commands have made sure of, and which of them have been there.
CommandsPassed ==
  /\ stage = "arguments" => conf.inferer_type \in Builtin /\ conf.inferer_path # "unset"
  /\ stage = "generated" => DagChecked(conf) /\ conf.inferer_path # "unset"
  /\ stage \in {"project", "confs", "arguments", "generated"} => by = "none"
  /\ stage \in {"project", "arguments", "generated"} => ~sound
  /\ sound => Deployable(conf)
  /\ by = "quick" => stage = "refused" \/ stage \in Served
  /\ stage \in Served => Accepted(conf)

\* What the C++ server has made sure of at each stage.
CppPassed ==
  kind = "cpp" =>
    /\ stage \in {"loadInference", "monitor", "models", "dag", "main", "bind", "started"}
         => CppLoadServer(conf) = "accepted"
    /\ stage \in {"monitor", "models", "dag", "main", "bind", "started"}
         => CppLoadInference(conf) = "accepted"
    /\ stage \in {"models", "dag", "main", "bind", "started"} => CppSystemMonitor(conf) = "accepted"
    /\ stage \in {"dag", "main", "bind", "started"} => CppModel(conf) = "accepted"
    /\ stage \in {"bind", "started"} => CppMain(conf) = "accepted"
    /\ stage = "started" => conf.path # "internal" /\ conf.port # "equal"
    /\ stage \in {"silent", "critical"} => CppGap(conf)

\* The same of the Python server.
PyPassed ==
  kind = "py" =>
    /\ stage \in {"monitor", "models", "dag", "routes", "started"} => PyMain(conf) = "accepted"
    /\ stage \in {"models", "dag", "routes", "started"} => PySystemMonitor(conf) = "accepted"
    /\ stage \in {"dag", "routes", "started"} =>
         PyModel(conf) = "accepted" /\ conf.models # "twin"
    /\ stage \in {"routes", "started"} => PyDag(conf) = "accepted"
    /\ stage = "started" => PyRoutes(conf) = "accepted"
    /\ stage = "critical" => PyGap(conf)
    /\ stage # "silent"

\* The i-th model got the registered instance, and no other did, or its own.
Instances ==
  /\ made \in Seq([inferer : Nat, converter : Nat])
  /\ \A i \in 1 .. Len(made) : made[i].inferer \in {0, i} /\ made[i].converter \in {0, i}
  /\ \A i, j \in 1 .. Len(made) :
       i # j => ~(made[i].inferer = 0 /\ made[j].inferer = 0)
                  /\ ~(made[i].converter = 0 /\ made[j].converter = 0)

Inv ==
  Typed(conf) /\ kind \in {"cpp", "py"} /\ CommandsPassed /\ CppPassed /\ PyPassed /\ Instances
-----------------------------------------------------------------------------
\* What the inference confs must satisfy for each command.
LEMMA InferenceChecks ==
  ASSUME NEW c
  PROVE  /\ ArchiveInference(c) = "accepted" => Deployable(c)
         /\ DeployInference(c) = "accepted" <=> Deployable(c)
         /\ QuickInference(c) = "accepted"
              => c.models # "absent" /\ ModelChecked(c) /\ BatchingChecked(c) /\ DagChecked(c)
         /\ DagChecked(c) => QuickInference(c) \in {"accepted", "refused"}
         /\ ArchiveInference(c) \in {"accepted", "refused", "raised"}
         /\ DeployInference(c) \in {"accepted", "refused", "raised"}
<1> DEFINE p == c.models # "absent" /\ ModelChecked(c)
<1> DEFINE f == c.inferer_type \in Builtin => c.inferer_path = "file"
<1> DEFINE u == c.inferer_type \in Builtin => c.inferer_path # "unset"
<1> DEFINE d == c.device # "other"
<1> DEFINE o == c.device = "original" /\ c.inferer_type = "torch" => c.inp_device = "cuda"
<1> DEFINE b == BatchingChecked(c)
<1>1. p \in BOOLEAN /\ f \in BOOLEAN /\ u \in BOOLEAN /\ d \in BOOLEAN /\ o \in BOOLEAN /\ b \in BOOLEAN
  BY DEF ModelChecked, BatchingChecked
<1>2. /\ ArchiveInference(c) = Outcome(<< <<p, "refused">>, <<f, "refused">>, <<b, "refused">> >> \o DagTests(c))
      /\ DeployInference(c) = Outcome(<< <<p, "refused">>, <<u, "refused">>, <<b, "refused">> >> \o DagTests(c))
      /\ QuickInference(c) =
           Outcome(<< <<p, "refused">>, <<d, "refused">>, <<o, "refused">>, <<b, "refused">> >> \o DagTests(c))
  BY DEF ArchiveInference, DeployInference, QuickInference
<1>3. /\ f => u
      /\ Deployable(c) <=> p /\ u /\ b /\ DagChecked(c)
  BY DEF Deployable
<1>4. QED
  <2> HIDE DEF p, f, u, d, o, b
  <2>1. /\ ArchiveInference(c) = "accepted" <=> p /\ f /\ b /\ DagChecked(c)
        /\ DeployInference(c) = "accepted" <=> p /\ u /\ b /\ DagChecked(c)
        /\ ArchiveInference(c) \in {"accepted", "refused", "raised"}
        /\ DeployInference(c) \in {"accepted", "refused", "raised"}
    BY <1>1, <1>2, ThreeRefuse
  <2>2. /\ QuickInference(c) = "accepted" <=> p /\ d /\ o /\ b /\ DagChecked(c)
        /\ DagChecked(c) => QuickInference(c) \in {"accepted", "refused"}
    BY <1>1, <1>2, FourRefuse
  <2>3. p => c.models # "absent" /\ ModelChecked(c)
    BY DEF p
  <2>4. b => BatchingChecked(c)
    BY DEF b
  <2> QED BY <1>3, <2>1, <2>2, <2>3, <2>4

\* The last checks of the C++ main.
LEMMA MainChecks ==
  ASSUME NEW c
  PROVE  /\ CppMain(c) = "accepted" <=>
              /\ c.framework \in {"http", "http+grpc", "http+brpc"} /\ c.host = "ip"
              /\ \/ c.framework = "http" /\ c.port = "one"
                 \/ c.framework # "http" /\ c.port \in {"two", "equal"}
              /\ c.max_concurrency # "negative"
         /\ CppMain(c) \in {"accepted", "critical", "silent"}
<1> DEFINE p == c.framework \in {"http", "http+grpc", "http+brpc"} /\ c.host = "ip"
<1> DEFINE q == \/ c.framework = "http" /\ c.port = "one"
                \/ c.framework # "http" /\ c.port \in {"two", "equal"}
<1> DEFINE r == c.max_concurrency # "negative"
<1> DEFINE s == << <<p, "critical">>, <<q, "critical">>, <<r, "silent">> >>
<1>1. p \in BOOLEAN /\ q \in BOOLEAN /\ r \in BOOLEAN
  OBVIOUS
<1>2. CppMain(c) = Outcome(s)
  BY DEF CppMain
<1> HIDE DEF p, q, r
<1>3. s \in Seq(BOOLEAN \X {"critical", "silent"}) /\ Len(s) = 3 /\ DOMAIN s = {1, 2, 3}
  BY <1>1
<1>4. /\ s[1][1] = p /\ s[2][1] = q /\ s[3][1] = r
      /\ s[1][2] = "critical" /\ s[2][2] = "critical" /\ s[3][2] = "silent"
  OBVIOUS
<1> HIDE DEF s
<1>5. \/ Outcome(s) = "accepted" /\ \A i \in DOMAIN s : s[i][1]
      \/ /\ Outcome(s) # "accepted" /\ Outcome(s) \in {"critical", "silent"}
         /\ \E i \in DOMAIN s : ~s[i][1] /\ Outcome(s) = s[i][2]
  BY <1>3, OutcomeCases
<1>6. Outcome(s) = "accepted" <=> p /\ q /\ r
  BY <1>3, <1>4, <1>5
<1>7. Outcome(s) \in {"accepted", "critical", "silent"}
  BY <1>3, <1>4, <1>5
<1>8. p /\ q /\ r <=>
              /\ c.framework \in {"http", "http+grpc", "http+brpc"} /\ c.host = "ip"
              /\ \/ c.framework = "http" /\ c.port = "one"
                 \/ c.framework # "http" /\ c.port \in {"two", "equal"}
              /\ c.max_concurrency # "negative"
  BY DEF p, q, r
<1> QED BY <1>2, <1>6, <1>7, <1>8
-----------------------------------------------------------------------------
LEMMA TemplateTyped == Typed(Template)
BY DEF Typed, Template, Keys, Domains, Presence, Count

LEMMA UncommentedTyped == Typed(Uncommented)
<1>1. ASSUME NEW k \in Keys PROVE Uncommented[k] \in Domains[k]
  <2>1. CASE k = "path"
    <3>1. Uncommented.path = "good"
      BY DEF Uncommented, Template
    <3> QED BY <2>1, <3>1 DEF Domains
  <2>2. CASE k = "streaming_ctrl"
    <3>1. Uncommented.streaming_ctrl = "query_param"
      BY DEF Uncommented, Template
    <3> QED BY <2>2, <3>1 DEF Domains
  <2>3. CASE k \notin {"path", "streaming_ctrl"}
    <3>1. DOMAIN Template = Keys
      BY DEF Template, Keys, Domains
    <3>2. Uncommented[k] = Template[k]
      BY <2>3, <3>1 DEF Uncommented
    <3> QED BY <3>2, TemplateTyped DEF Typed
  <2> QED BY <2>1, <2>2, <2>3
<1> QED BY <1>1 DEF Typed

\* The keys whose further values matter below.
LEMMA ValuesTyped ==
  ASSUME NEW c, Typed(c)
  PROVE  /\ c.models \in {"one", "two", "twin", "absent"}
         /\ c.version \in {"text", "number", "unset"}
         /\ c.inferer_name \in {"known", "unknown", "unset"}
         /\ c.inferer_path \in {"file", "nofile", "unset"}
         /\ c.device \in {"cuda", "cpu", "original", "other", "unset"}
         /\ c.converter_name \in {"known", "unknown", "unset"}
         /\ c.dag_name \in {"set", "unset"}
         /\ c.path \in {"good", "internal", "malformed", "unset", "absent"}
         /\ c.streaming_ctrl \in {"query_param", "other", "unset", "absent"}
         /\ c.ctrl_key \in {"text", "number", "unset"} /\ c.res_content_type \in {"text", "number", "unset"}
         /\ c.mem_gc_enable \in {"true", "false", "unset"}
         /\ c.mem_gc_interval \in {"positive", "zero", "text", "unset"}
BY DEF Typed, Keys, Domains, Presence, Count

LEMMA CppServerLoads ==
  ASSUME NEW c, Typed(c), Accepted(c)
  PROVE  CppLoadServer(c) \in {"accepted", "silent"} /\ (CppLoadServer(c) = "silent" => CppGap(c))
BY ValuesTyped DEF Accepted, Deployable, ModelChecked, BatchingChecked, InterfaceChecked, LimitsChecked,
   GpuChecked, LogChecked, CppLoadServer, CppGap, Unless, Has, HasInts, Rank

LEMMA CppInferenceLoads ==
  ASSUME NEW c, Typed(c), Accepted(c)
  PROVE  CppLoadInference(c) \in {"accepted", "silent"} /\ (CppLoadInference(c) = "silent" => CppGap(c))
BY ValuesTyped DEF Accepted, Deployable, ModelChecked, BatchingChecked, DagChecked, Builtin,
   CppLoadInference, CppGap, Unless, Has, HasInts

LEMMA CppMonitors ==
  ASSUME NEW c, Typed(c), Accepted(c)
  PROVE  CppSystemMonitor(c) \in {"accepted", "critical"} /\ (CppSystemMonitor(c) = "critical" => CppGap(c))
BY ValuesTyped DEF Accepted, GpuChecked, CppSystemMonitor, CppGap, Unless

LEMMA CppModels ==
  ASSUME NEW c, Typed(c), Accepted(c)
  PROVE  CppModel(c) \in {"accepted", "critical"} /\ (CppModel(c) = "critical" => CppGap(c))
BY ValuesTyped DEF Accepted, Deployable, ModelChecked, BatchingChecked, Builtin, CppModel, CppTorch, CppTrt,
   CppGap, Unless

LEMMA CppDags ==
  ASSUME NEW c, Accepted(c)
  PROVE  CppDag(c) = "accepted"
BY DEF Accepted, Deployable, DagChecked, CppDag, Unless

LEMMA CppMains ==
  ASSUME NEW c, Typed(c), Accepted(c)
  PROVE  CppMain(c) \in {"accepted", "critical", "silent"} /\ (CppMain(c) # "accepted" => CppGap(c))
BY MainChecks DEF Accepted, InterfaceChecked, CppGap

LEMMA CppNoGap ==
  ASSUME NEW c, Typed(c), Accepted(c),
         CppLoadServer(c) = "accepted", CppLoadInference(c) = "accepted", CppSystemMonitor(c) = "accepted",
         CppModel(c) = "accepted", CppMain(c) = "accepted", c.path # "internal", c.port # "equal"
  PROVE  ~CppGap(c)
BY MainChecks, ValuesTyped DEF Accepted, Deployable, ModelChecked, Builtin, InterfaceChecked, GpuChecked,
   CppLoadServer, CppLoadInference, CppSystemMonitor, CppModel, CppTorch, CppTrt, CppGap, Unless, Has, HasInts

LEMMA PyLoads ==
  ASSUME NEW c, Accepted(c)
  PROVE  PyLoad(c) = "accepted"
BY DEF Accepted, LogChecked, PyLoad, Unless

LEMMA PyMains ==
  ASSUME NEW c, Typed(c), Accepted(c)
  PROVE  PyMain(c) \in {"accepted", "critical"} /\ (PyMain(c) = "critical" => PyGap(c))
BY DEF Accepted, InterfaceChecked, LimitsChecked, PyMain, PyGap, Unless

LEMMA PyMonitors ==
  ASSUME NEW c, Typed(c), Accepted(c)
  PROVE  PySystemMonitor(c) \in {"accepted", "critical"} /\ (PySystemMonitor(c) = "critical" => PyGap(c))
BY DEF Accepted, GpuChecked, PySystemMonitor, PyGap, Unless

LEMMA PyModels ==
  ASSUME NEW c, Typed(c), Accepted(c)
  PROVE  PyModel(c) \in {"accepted", "critical"} /\ (PyModel(c) = "critical" => PyGap(c))
BY ValuesTyped DEF Accepted, Deployable, ModelChecked, DagChecked, BatchingChecked, Builtin, PyModel, PyTorch,
   PyTrt, PyGap, Unless

LEMMA PyDags ==
  ASSUME NEW c, Typed(c), Accepted(c)
  PROVE  PyDag(c) \in {"accepted", "critical"} /\ (PyDag(c) = "critical" => PyGap(c))
BY ValuesTyped DEF Accepted, Deployable, DagChecked, PyDag, PyGap, Unless

LEMMA PyRoutesMade ==
  ASSUME NEW c, Typed(c), Accepted(c)
  PROVE  PyRoutes(c) \in {"accepted", "critical"} /\ (PyRoutes(c) = "critical" => PyGap(c))
BY ValuesTyped DEF Accepted, InterfaceChecked, PyRoutes, PyGap, Unless

LEMMA PyNoGap ==
  ASSUME NEW c, Typed(c), Accepted(c), c.models # "twin",
         PyMain(c) = "accepted", PySystemMonitor(c) = "accepted",
         PyModel(c) = "accepted", PyDag(c) = "accepted", PyRoutes(c) = "accepted"
  PROVE  ~PyGap(c)
BY ValuesTyped DEF Accepted, Deployable, ModelChecked, Builtin, InterfaceChecked, GpuChecked,
   PyMain, PySystemMonitor, PyModel, PyTorch, PyTrt, PyDag, PyRoutes, PyGap, Unless
-----------------------------------------------------------------------------
\* The confs that start out, and those that are generated, are typed.
LEMMA VariantsTyped ==
  ASSUME NEW t, Typed(t), NEW c \in Variants(t)
  PROVE  Typed(c)
<1>1. PICK odd \in [1..MaxOdd -> Keys] :
         c \in {Changed(t, g) : g \in Overrides({odd[i] : i \in 1..MaxOdd})}
  BY DEF Variants
<1> DEFINE K == {odd[i] : i \in 1..MaxOdd}
<1>2. PICK g \in Overrides(K) : c = Changed(t, g)
  BY <1>1
<1> HIDE DEF K
<1>3. DOMAIN g = K /\ \A k \in K : g[k] \in Domains[k]
  BY DEF Overrides
<1>4. ASSUME NEW k \in Keys PROVE c[k] \in Domains[k]
  <2>1. c[k] = IF k \in K THEN g[k] ELSE t[k]
    BY <1>2, <1>3 DEF Changed
  <2>2. t[k] \in Domains[k]
    BY DEF Typed
  <2> QED BY <1>3, <2>1, <2>2
<1> QED BY <1>4 DEF Typed

LEMMA ConfsTyped ==
  ASSUME NEW c \in Confs
  PROVE  Typed(c)
BY VariantsTyped, TemplateTyped, UncommentedTyped DEF Confs

LEMMA GenConfTyped ==
  ASSUME NEW c, Typed(c), c.inferer_type \in Builtin
  PROVE  /\ Typed(GenConf(c)) /\ DagChecked(GenConf(c))
         /\ GenConf(c).inferer_path = c.inferer_path
<1>1. ASSUME NEW k \in Keys PROVE GenConf(c)[k] \in Domains[k]
  <2>1. CASE k \in ArgumentKeys
    <3>1. k # "converter_type" /\ k # "gpu"
      BY <2>1 DEF ArgumentKeys
    <3>2. GenConf(c)[k] = c[k]
      BY <2>1, <3>1 DEF GenConf
    <3> QED BY <3>2 DEF Typed
  <2>2. CASE k = "converter_type"
    <3>1. GenConf(c)[k] = c.inferer_type
      BY <2>2 DEF GenConf, ArgumentKeys
    <3>2. Builtin \subseteq Domains["converter_type"]
      BY DEF Builtin, Domains
    <3> QED BY <2>2, <3>1, <3>2
  <2>3. CASE k = "gpu"
    <3>1. GenConf(c)[k] \in {"torch", "none"}
      BY <2>3 DEF GenConf, ArgumentKeys
    <3>2. {"torch", "none"} \subseteq Domains["gpu"]
      BY DEF Domains
    <3> QED BY <2>3, <3>1, <3>2
  <2>4. CASE k \notin ArgumentKeys /\ k # "converter_type" /\ k # "gpu"
    <3>1. GenConf(c)[k] = Template[k]
      BY <2>4 DEF GenConf
    <3> QED BY <3>1, TemplateTyped DEF Typed
  <2> QED BY <2>1, <2>2, <2>3, <2>4
<1>2. /\ GenConf(c).version = Template.version /\ GenConf(c).dag = Template.dag
      /\ GenConf(c).nodes = Template.nodes
  <2>1. {"version", "dag", "nodes"} \subseteq Keys /\ {"version", "dag", "nodes"} \cap ArgumentKeys = {}
    BY DEF Keys, Domains, ArgumentKeys
  <2> QED BY <2>1 DEF GenConf
<1>3. GenConf(c).inferer_path = c.inferer_path
  <2>1. "inferer_path" \in Keys /\ "inferer_path" \in ArgumentKeys
    BY DEF Keys, Domains, ArgumentKeys
  <2> QED BY <2>1 DEF GenConf
<1> QED BY <1>1, <1>2, <1>3 DEF Typed, DagChecked, Template

LEMMA InitInv == Init => Inv
<1> SUFFICES ASSUME Init PROVE Inv
  OBVIOUS
<1>1. Typed(conf)
  BY ConfsTyped DEF Init
<1>2. kind \in {"cpp", "py"} /\ stage \in {"project", "confs", "arguments"} /\ by = "none" /\ sound = FALSE
  BY KindsAssumption DEF Init
<1>3. stage = "arguments" => conf.inferer_type \in Builtin /\ conf.inferer_path # "unset"
  <2>1. stage = "arguments" => IsArguments(conf)
    BY DEF Init
  <2>2. "inferer_path" \in ArgumentKeys
    BY DEF ArgumentKeys
  <2> QED BY <2>1, <2>2 DEF IsArguments
<1>4. CommandsPassed
  BY <1>2, <1>3 DEF CommandsPassed, Served
<1>5. CppPassed /\ PyPassed
  BY <1>2 DEF CppPassed, PyPassed
<1>6. Instances
  BY DEF Init, Instances
<1> QED BY <1>1, <1>2, <1>4, <1>5, <1>6 DEF Inv

\* A command that is at work has nothing to do with the server's part.
LEMMA CommandStep ==
  ASSUME Inv, made' = made, kind' = kind, Typed(conf)', CommandsPassed',
         stage' \in {"confs", "generated", "load", "refused", "raised"}
  PROVE  Inv'
<1>1. CppPassed' /\ PyPassed'
  BY DEF CppPassed, PyPassed
<1>2. Instances'
  BY DEF Inv, Instances
<1> QED BY <1>1, <1>2 DEF Inv

LEMMA ArchiveStep == Inv /\ Archive => Inv'
<1> SUFFICES ASSUME Inv, Archive PROVE Inv'
  OBVIOUS
<1> DEFINE inference == ArchiveInference(conf)
<1> DEFINE outcome == IF inference = "accepted" THEN ArchiveServer(conf) ELSE inference
<1>1. /\ stage = "project" /\ stage' = (IF outcome = "accepted" THEN "confs" ELSE outcome)
      /\ sound' = (outcome = "accepted") /\ conf' = conf /\ kind' = kind /\ by' = by /\ made' = made
  BY DEF Archive, Check
<1>2. /\ inference \in {"accepted", "refused", "raised"} /\ (inference = "accepted" => Deployable(conf))
      /\ ArchiveServer(conf) \in {"accepted", "refused"}
  BY InferenceChecks DEF ArchiveServer, Unless
<1> HIDE DEF inference
<1>3. stage' \in {"confs", "refused", "raised"} /\ (sound' => Deployable(conf)')
  BY <1>1, <1>2 DEF Deployable
<1>4. by = "none"
  BY <1>1 DEF Inv, CommandsPassed
<1>5. CommandsPassed'
  BY <1>1, <1>3, <1>4 DEF CommandsPassed, Served
<1>6. Typed(conf)'
  BY <1>1 DEF Inv, Typed
<1> QED BY <1>1, <1>3, <1>5, <1>6, CommandStep

LEMMA DeployStep == Inv /\ DeployPrepare => Inv'
<1> SUFFICES ASSUME Inv, DeployPrepare PROVE Inv'
  OBVIOUS
<1> DEFINE inference == DeployInference(conf)
<1> DEFINE outcome == IF inference = "accepted" THEN DeployServer(conf) ELSE inference
<1>1. /\ stage = "confs" /\ stage' = (IF outcome = "accepted" THEN "load" ELSE outcome)
      /\ by' = "deploy" /\ conf' = conf /\ kind' = kind /\ sound' = sound /\ made' = made
  BY DEF DeployPrepare, Check
<1>2. /\ inference \in {"accepted", "refused", "raised"} /\ (inference = "accepted" => Deployable(conf))
      /\ DeployServer(conf) \in {"accepted", "refused"}
  BY InferenceChecks DEF DeployServer, Unless
<1> HIDE DEF inference
<1>3. /\ stage' \in {"load", "refused", "raised"}
      /\ stage' = "load" => Deployable(conf) /\ DeployServer(conf) = "accepted"
  BY <1>1, <1>2
<1>4. stage' = "load" => Accepted(conf)'
  <2>1. DeployServer(conf) = "accepted" =>
          InterfaceChecked(conf) /\ LimitsChecked(conf) /\ GpuChecked(conf) /\ LogChecked(conf)
    BY DEF DeployServer, Unless
  <2>2. stage' = "load" => Accepted(conf)
    BY <1>3, <2>1 DEF Accepted
  <2> QED BY <1>1, <2>2
<1>5. sound' => Deployable(conf)'
  BY <1>1 DEF Inv, CommandsPassed
<1>6. CommandsPassed'
  BY <1>1, <1>3, <1>4, <1>5 DEF CommandsPassed, Served
<1>7. Typed(conf)'
  BY <1>1 DEF Inv, Typed
<1> QED BY <1>1, <1>3, <1>6, <1>7, CommandStep

LEMMA GenerateStep == Inv /\ Generate => Inv'
<1> SUFFICES ASSUME Inv, Generate PROVE Inv'
  OBVIOUS
<1>1. /\ stage = "arguments" /\ stage' \in {"generated", "refused"}
      /\ conf' = GenConf(conf) /\ kind' = kind /\ by' = by /\ sound' = sound /\ made' = made
  BY DEF Generate, Check, Unless
<1>2. Typed(conf) /\ conf.inferer_type \in Builtin /\ conf.inferer_path # "unset" /\ by = "none" /\ ~sound
  BY <1>1 DEF Inv, CommandsPassed
<1>3. Typed(conf') /\ DagChecked(conf') /\ conf'.inferer_path # "unset"
  BY <1>1, <1>2, GenConfTyped
<1>4. CommandsPassed'
  BY <1>1, <1>2, <1>3 DEF CommandsPassed, Served
<1> QED BY <1>1, <1>3, <1>4, CommandStep

LEMMA QuickStep == Inv /\ QuickPrepare => Inv'
<1> SUFFICES ASSUME Inv, QuickPrepare PROVE Inv'
  OBVIOUS
<1> DEFINE inference == QuickInference(conf)
<1> DEFINE outcome == IF inference = "accepted" THEN QuickServer(conf) ELSE inference
<1>1. /\ stage = "generated" /\ stage' = (IF outcome = "accepted" THEN "load" ELSE outcome)
      /\ by' = "quick" /\ conf' = conf /\ kind' = kind /\ sound' = sound /\ made' = made
  BY DEF QuickPrepare, Check
<1>2. DagChecked(conf) /\ conf.inferer_path # "unset" /\ ~sound
  BY <1>1 DEF Inv, CommandsPassed
<1>3. /\ inference \in {"accepted", "refused"} /\ QuickServer(conf) \in {"accepted", "refused"}
      /\ inference = "accepted" => conf.models # "absent" /\ ModelChecked(conf) /\ BatchingChecked(conf)
  BY <1>2, InferenceChecks DEF QuickServer, Unless
<1> HIDE DEF inference
<1>4. /\ stage' \in {"load", "refused"}
      /\ stage' = "load" => inference = "accepted" /\ QuickServer(conf) = "accepted"
  BY <1>1, <1>3
<1>5. stage' = "load" => Accepted(conf)'
  <2>1. QuickServer(conf) = "accepted" =>
          InterfaceChecked(conf) /\ LimitsChecked(conf) /\ GpuChecked(conf) /\ LogChecked(conf)
    BY DEF QuickServer, Unless
  <2>2. stage' = "load" => Accepted(conf)
    BY <1>2, <1>3, <1>4, <2>1 DEF Accepted, Deployable
  <2> QED BY <1>1, <2>2
<1>6. CommandsPassed'
  BY <1>1, <1>2, <1>4, <1>5 DEF CommandsPassed, Served
<1>7. Typed(conf)'
  BY <1>1 DEF Inv, Typed
<1> QED BY <1>1, <1>4, <1>6, <1>7, CommandStep
-----------------------------------------------------------------------------
\* The server that starts changes the stage and what is made, nothing else.
LEMMA ServerStep ==
  ASSUME Inv, conf' = conf, kind' = kind, by' = by, sound' = sound,
         stage \in Served, stage' \in Served, CppPassed', PyPassed', Instances'
  PROVE  Inv'
<1>1. Typed(conf)' /\ kind' \in {"cpp", "py"}
  BY DEF Inv, Typed
<1>2. Accepted(conf)
  BY DEF Inv, CommandsPassed
<1>3. Accepted(conf)'
  BY <1>2
<1>4. sound' => Deployable(conf)'
  BY DEF Inv, CommandsPassed
<1>5. CommandsPassed'
  BY <1>3, <1>4 DEF CommandsPassed, Served
<1> QED BY <1>1, <1>5 DEF Inv

\* The next model's inferer, and likewise its converter, is the registered
\* instance where no model before has it, and its own otherwise.
LEMMA NextInstance ==
  ASSUME NEW type, Instances, NEW taken
  PROVE  /\ Instance(type, taken) \in {0, Len(made) + 1}
         /\ Instance(type, taken) = 0 => 0 \notin taken
BY DEF Instance, Instances

LEMMA ModelMade ==
  ASSUME Instances,
         made' = Append(made,
               [inferer   |-> Instance(conf.inferer_type, {made[i].inferer : i \in DOMAIN made}),
                converter |-> Instance(conf.converter_type, {made[i].converter : i \in DOMAIN made})])
  PROVE  Instances'
<1> DEFINE n == Len(made) + 1
<1> DEFINE inf == Instance(conf.inferer_type, {made[i].inferer : i \in DOMAIN made})
<1> DEFINE con == Instance(conf.converter_type, {made[i].converter : i \in DOMAIN made})
<1> DEFINE new == [inferer |-> inf, converter |-> con]
<1>1. made \in Seq([inferer : Nat, converter : Nat]) /\ DOMAIN made = 1 .. Len(made) /\ Len(made) \in Nat
  BY DEF Instances
<1>2. /\ inf \in {0, n} /\ con \in {0, n}
      /\ inf = 0 => 0 \notin {made[i].inferer : i \in DOMAIN made}
      /\ con = 0 => 0 \notin {made[i].converter : i \in DOMAIN made}
  BY NextInstance
<1>3. made' = Append(made, new)
  OBVIOUS
<1> HIDE DEF inf, con
<1>4. new \in [inferer : Nat, converter : Nat]
  BY <1>1, <1>2
<1>5. new.inferer = inf /\ new.converter = con
  OBVIOUS
<1> HIDE DEF new
<1>6. /\ made' \in Seq([inferer : Nat, converter : Nat]) /\ Len(made') = n
      /\ \A i \in 1 .. Len(made) : made'[i] = made[i]
      /\ made'[n] = new
  <2> DEFINE R == [inferer : Nat, converter : Nat]
  <2>1. made \in Seq(R) /\ new \in R
    BY <1>1, <1>4
  <2> HIDE DEF R
  <2>2. made' \in Seq(R) /\ Len(made') = Len(made) + 1
    BY <1>3, <2>1, AppendProperties
  <2>3. \A i \in 1 .. Len(made) : made'[i] = made[i]
    BY <1>3, <2>1, AppendProperties
  <2>4. made'[n] = new
    <3>1. Append(made, new)[Len(made) + 1] = new
      BY <2>1, AppendProperties
    <3> QED BY <1>3, <3>1, Zenon
  <2> QED BY <2>2, <2>3, <2>4 DEF R
<1>7. ASSUME NEW i \in 1 .. Len(made)
      PROVE  /\ made[i].inferer \in {0, i} /\ made[i].converter \in {0, i}
             /\ inf = 0 => made[i].inferer # 0
             /\ con = 0 => made[i].converter # 0
  <2>1. made[i].inferer \in {0, i} /\ made[i].converter \in {0, i}
    BY <1>7 DEF Instances
  <2>2. made[i].inferer \in {made[k].inferer : k \in DOMAIN made}
    BY <1>1, <1>7
  <2>3. made[i].converter \in {made[k].converter : k \in DOMAIN made}
    BY <1>1, <1>7
  <2> QED BY <1>2, <2>1, <2>2, <2>3
<1>8. ASSUME NEW i \in 1 .. Len(made')
      PROVE  i = n \/ i \in 1 .. Len(made)
  BY <1>1, <1>6
<1>9. ASSUME NEW i \in 1 .. Len(made')
      PROVE  made'[i].inferer \in {0, i} /\ made'[i].converter \in {0, i}
  BY <1>2, <1>5, <1>6, <1>7, <1>8
<1>10. ASSUME NEW i \in 1 .. Len(made'), NEW j \in 1 .. Len(made'), i # j
       PROVE  /\ ~(made'[i].inferer = 0 /\ made'[j].inferer = 0)
              /\ ~(made'[i].converter = 0 /\ made'[j].converter = 0)
  <2>1. CASE i = n
    <3>1. j \in 1 .. Len(made)
      BY <1>8, <1>10, <2>1
    <3> QED BY <1>5, <1>6, <1>7, <2>1, <3>1
  <2>2. CASE j = n
    <3>1. i \in 1 .. Len(made)
      BY <1>8, <1>10, <2>2
    <3> QED BY <1>5, <1>6, <1>7, <2>2, <3>1
  <2>3. CASE i \in 1 .. Len(made) /\ j \in 1 .. Len(made)
    BY SMTT(30), <1>6, <1>10, <2>3 DEF Instances
  <2> QED BY <1>8, <2>1, <2>2, <2>3
<1> QED BY <1>6, <1>9, <1>10 DEF Instances

\* What one turn of the loop over the models does.
LEMMA ModelStep ==
  ASSUME Inv, NEW server, NEW outcome, InitModel(server, outcome)
  PROVE  /\ kind = server /\ stage = "models" /\ Instances'
         /\ conf' = conf /\ kind' = kind /\ by' = by /\ sound' = sound
         /\ \/ outcome = "accepted" /\ stage' \in {"models", "dag"} /\ Len(made') = Len(made) + 1
               /\ (stage' = "dag" => Len(made) + 1 = Models)
            \/ outcome # "accepted" /\ stage' = outcome
<1>1. /\ kind = server /\ stage = "models"
      /\ conf' = conf /\ kind' = kind /\ by' = by /\ sound' = sound
  BY DEF InitModel
<1>2. Instances /\ Len(made) \in Nat
  BY DEF Inv, Instances
<1>3. CASE outcome = "accepted"
  <2>1. /\ made' = Append(made,
               [inferer   |-> Instance(conf.inferer_type, {made[i].inferer : i \in DOMAIN made}),
                converter |-> Instance(conf.converter_type, {made[i].converter : i \in DOMAIN made})])
        /\ stage' = AfterModel(Len(made'))
    BY <1>3 DEF InitModel
  <2>2. Instances'
    BY <1>2, <2>1, ModelMade
  <2>3. Len(made') = Len(made) + 1
    BY <1>2, <2>1 DEF Instances
  <2> QED BY <1>1, <1>3, <2>1, <2>2, <2>3 DEF AfterModel
<1>4. CASE outcome # "accepted"
  <2>1. stage' = outcome /\ made' = made
    BY <1>4 DEF InitModel
  <2>2. Instances'
    BY <1>2, <2>1 DEF Instances
  <2> QED BY <1>1, <1>4, <2>1, <2>2
<1> QED BY <1>3, <1>4

\* What a check of a server that starts does.
LEMMA ServeStep ==
  ASSUME Inv, NEW server, NEW from, NEW outcome, NEW to, Serve(server, from, outcome, to)
  PROVE  /\ kind = server /\ stage = from /\ Instances'
         /\ conf' = conf /\ kind' = kind /\ by' = by /\ sound' = sound
         /\ stage' = IF outcome = "accepted" THEN to ELSE outcome
<1>1. /\ kind = server /\ stage = from /\ made' = made
      /\ conf' = conf /\ kind' = kind /\ by' = by /\ sound' = sound
      /\ stage' = IF outcome = "accepted" THEN to ELSE outcome
  BY DEF Serve, Check
<1>2. Instances'
  BY <1>1 DEF Inv, Instances
<1> QED BY <1>1, <1>2
-----------------------------------------------------------------------------
\* A conf whose ports are equal, or whose path is the server's own, ends at Bind.
LEMMA StagesOfBind ==
  ASSUME Bind
  PROVE  /\ conf.path = "internal" => stage' = "critical"
         /\ conf.path # "internal" /\ conf.port = "equal" => stage' \in {"critical", "silent"}
         /\ conf.path # "internal" /\ conf.port # "equal" => stage' = "started"
BY DEF Bind

LEMMA CppStep == Inv /\ CppStart => Inv'
<1> SUFFICES ASSUME Inv, CppStart PROVE Inv'
  OBVIOUS
<1>1. CASE Serve("cpp", "load", CppLoadServer(conf), "loadInference")
  <2>1. /\ kind = "cpp" /\ stage = "load" /\ Instances'
        /\ conf' = conf /\ kind' = kind /\ by' = by /\ sound' = sound
        /\ stage' = IF CppLoadServer(conf) = "accepted" THEN "loadInference" ELSE CppLoadServer(conf)
    BY <1>1, ServeStep
  <2>2. stage \in Served /\ Typed(conf) /\ Accepted(conf)
    BY <2>1 DEF Inv, CommandsPassed, Served
  <2>3. /\ stage' = "loadInference" \/ stage' \in {"critical", "silent"}
        /\ stage' = "loadInference" => CppLoadServer(conf) = "accepted"
        /\ stage' \in {"critical", "silent"} => CppGap(conf)
    BY <2>1, <2>2, CppServerLoads
  <2>4. CppPassed'
    BY <2>1, <2>3 DEF Inv, CppPassed
  <2>5. PyPassed'
    BY <2>1 DEF PyPassed
  <2>6. stage' \in Served
    BY <2>3 DEF Served
  <2> QED BY <2>1, <2>2, <2>4, <2>5, <2>6, ServerStep
<1>2. CASE Serve("cpp", "loadInference", CppLoadInference(conf), "monitor")
  <2>1. /\ kind = "cpp" /\ stage = "loadInference" /\ Instances'
        /\ conf' = conf /\ kind' = kind /\ by' = by /\ sound' = sound
        /\ stage' = IF CppLoadInference(conf) = "accepted" THEN "monitor" ELSE CppLoadInference(conf)
    BY <1>2, ServeStep
  <2>2. stage \in Served /\ Typed(conf) /\ Accepted(conf)
    BY <2>1 DEF Inv, CommandsPassed, Served
  <2>3. /\ stage' = "monitor" \/ stage' \in {"critical", "silent"}
        /\ stage' = "monitor" => CppLoadInference(conf) = "accepted"
        /\ stage' \in {"critical", "silent"} => CppGap(conf)
    BY <2>1, <2>2, CppInferenceLoads
  <2>4. CppPassed'
    BY <2>1, <2>3 DEF Inv, CppPassed
  <2>5. PyPassed'
    BY <2>1 DEF PyPassed
  <2>6. stage' \in Served
    BY <2>3 DEF Served
  <2> QED BY <2>1, <2>2, <2>4, <2>5, <2>6, ServerStep
<1>3. CASE Serve("cpp", "monitor", CppSystemMonitor(conf), "models")
  <2>1. /\ kind = "cpp" /\ stage = "monitor" /\ Instances'
        /\ conf' = conf /\ kind' = kind /\ by' = by /\ sound' = sound
        /\ stage' = IF CppSystemMonitor(conf) = "accepted" THEN "models" ELSE CppSystemMonitor(conf)
    BY <1>3, ServeStep
  <2>2. stage \in Served /\ Typed(conf) /\ Accepted(conf)
    BY <2>1 DEF Inv, CommandsPassed, Served
  <2>3. /\ stage' = "models" \/ stage' \in {"critical", "silent"}
        /\ stage' = "models" => CppSystemMonitor(conf) = "accepted"
        /\ stage' \in {"critical", "silent"} => CppGap(conf)
    BY <2>1, <2>2, CppMonitors
  <2>4. CppPassed'
    BY <2>1, <2>3 DEF Inv, CppPassed
  <2>5. PyPassed'
    BY <2>1 DEF PyPassed
  <2>6. stage' \in Served
    BY <2>3 DEF Served
  <2> QED BY <2>1, <2>2, <2>4, <2>5, <2>6, ServerStep
<1>4. CASE Serve("cpp", "dag", CppDag(conf), "main")
  <2>1. /\ kind = "cpp" /\ stage = "dag" /\ Instances'
        /\ conf' = conf /\ kind' = kind /\ by' = by /\ sound' = sound
        /\ stage' = IF CppDag(conf) = "accepted" THEN "main" ELSE CppDag(conf)
    BY <1>4, ServeStep
  <2>2. stage \in Served /\ Typed(conf) /\ Accepted(conf)
    BY <2>1 DEF Inv, CommandsPassed, Served
  <2>3. /\ stage' = "main" \/ stage' \in {"critical", "silent"}
        /\ stage' = "main" => CppDag(conf) = "accepted"
        /\ stage' \in {"critical", "silent"} => CppGap(conf)
    BY <2>1, <2>2, CppDags
  <2>4. CppPassed'
    BY <2>1, <2>3 DEF Inv, CppPassed
  <2>5. PyPassed'
    BY <2>1 DEF PyPassed
  <2>6. stage' \in Served
    BY <2>3 DEF Served
  <2> QED BY <2>1, <2>2, <2>4, <2>5, <2>6, ServerStep
<1>5. CASE Serve("cpp", "main", CppMain(conf), "bind")
  <2>1. /\ kind = "cpp" /\ stage = "main" /\ Instances'
        /\ conf' = conf /\ kind' = kind /\ by' = by /\ sound' = sound
        /\ stage' = IF CppMain(conf) = "accepted" THEN "bind" ELSE CppMain(conf)
    BY <1>5, ServeStep
  <2>2. stage \in Served /\ Typed(conf) /\ Accepted(conf)
    BY <2>1 DEF Inv, CommandsPassed, Served
  <2>3. /\ stage' = "bind" \/ stage' \in {"critical", "silent"}
        /\ stage' = "bind" => CppMain(conf) = "accepted"
        /\ stage' \in {"critical", "silent"} => CppGap(conf)
    BY <2>1, <2>2, CppMains
  <2>4. CppPassed'
    BY <2>1, <2>3 DEF Inv, CppPassed
  <2>5. PyPassed'
    BY <2>1 DEF PyPassed
  <2>6. stage' \in Served
    BY <2>3 DEF Served
  <2> QED BY <2>1, <2>2, <2>4, <2>5, <2>6, ServerStep
<1>6. CASE InitModel("cpp", CppModel(conf))
  <2>1. /\ kind = "cpp" /\ stage = "models" /\ Instances'
        /\ conf' = conf /\ kind' = kind /\ by' = by /\ sound' = sound
        /\ \/ CppModel(conf) = "accepted" /\ stage' \in {"models", "dag"}
           \/ CppModel(conf) # "accepted" /\ stage' = CppModel(conf)
    BY <1>6, ModelStep
  <2>2. stage \in Served /\ Typed(conf) /\ Accepted(conf)
    BY <2>1 DEF Inv, CommandsPassed, Served
  <2>3. /\ stage' \in {"models", "dag"} \/ stage' = "critical"
        /\ stage' = "dag" => CppModel(conf) = "accepted"
        /\ stage' = "critical" => CppGap(conf)
    BY <2>1, <2>2, CppModels
  <2>4. CppPassed'
    BY <2>1, <2>3 DEF Inv, CppPassed
  <2>5. PyPassed'
    BY <2>1 DEF PyPassed
  <2>6. stage' \in Served
    BY <2>3 DEF Served
  <2> QED BY <2>1, <2>2, <2>4, <2>5, <2>6, ServerStep
<1>7. CASE Bind
  <2>1. /\ kind = "cpp" /\ stage = "bind"
        /\ conf' = conf /\ kind' = kind /\ by' = by /\ sound' = sound /\ made' = made
    BY <1>7 DEF Bind
  <2>2. stage \in Served /\ Typed(conf) /\ Accepted(conf) /\ CppPassed /\ Instances
    BY <2>1 DEF Inv, CommandsPassed, Served
  <2>3. \/ stage' = "started" /\ conf.path # "internal" /\ conf.port # "equal"
        \/ stage' \in {"critical", "silent"} /\ (conf.path = "internal" \/ conf.port = "equal")
    <3>1. CASE conf.path = "internal"
      BY <1>7, <2>2, <3>1, StagesOfBind
    <3>2. CASE conf.path # "internal" /\ conf.port = "equal"
      BY <1>7, <2>2, <3>2, StagesOfBind
    <3>3. CASE conf.path # "internal" /\ conf.port # "equal"
      BY <1>7, <3>3, StagesOfBind
    <3> QED BY <3>1, <3>2, <3>3
  <2>4. stage' \in {"critical", "silent"} => CppGap(conf)
    BY <2>3 DEF CppGap
  <2>5. CppPassed'
    BY <2>1, <2>2, <2>3, <2>4 DEF CppPassed
  <2>6. PyPassed'
    BY <2>1 DEF PyPassed
  <2>7. Instances' /\ stage' \in Served
    BY <2>1, <2>2, <2>3 DEF Instances, Served
  <2> QED BY <2>1, <2>2, <2>5, <2>6, <2>7, ServerStep
<1> QED BY <1>1, <1>2, <1>3, <1>4, <1>5, <1>6, <1>7 DEF CppStart

LEMMA PyStep == Inv /\ PyStart => Inv'
<1> SUFFICES ASSUME Inv, PyStart PROVE Inv'
  OBVIOUS
<1>1. CASE Serve("py", "load", PyLoad(conf), "main")
  <2>1. /\ kind = "py" /\ stage = "load" /\ Instances'
        /\ conf' = conf /\ kind' = kind /\ by' = by /\ sound' = sound
        /\ stage' = IF PyLoad(conf) = "accepted" THEN "main" ELSE PyLoad(conf)
    BY <1>1, ServeStep
  <2>2. stage \in Served /\ Typed(conf) /\ Accepted(conf)
    BY <2>1 DEF Inv, CommandsPassed, Served
  <2>3. /\ stage' = "main" \/ stage' \in {"critical", "silent"}
        /\ stage' = "main" => PyLoad(conf) = "accepted"
        /\ stage' \in {"critical", "silent"} => PyGap(conf) /\ stage' = "critical"
    BY <2>1, <2>2, PyLoads
  <2>4. PyPassed'
    BY <2>1, <2>3 DEF Inv, PyPassed
  <2>5. CppPassed'
    BY <2>1 DEF CppPassed
  <2>6. stage' \in Served
    BY <2>3 DEF Served
  <2> QED BY <2>1, <2>2, <2>4, <2>5, <2>6, ServerStep
<1>2. CASE Serve("py", "main", PyMain(conf), "monitor")
  <2>1. /\ kind = "py" /\ stage = "main" /\ Instances'
        /\ conf' = conf /\ kind' = kind /\ by' = by /\ sound' = sound
        /\ stage' = IF PyMain(conf) = "accepted" THEN "monitor" ELSE PyMain(conf)
    BY <1>2, ServeStep
  <2>2. stage \in Served /\ Typed(conf) /\ Accepted(conf)
    BY <2>1 DEF Inv, CommandsPassed, Served
  <2>3. /\ stage' = "monitor" \/ stage' \in {"critical", "silent"}
        /\ stage' = "monitor" => PyMain(conf) = "accepted"
        /\ stage' \in {"critical", "silent"} => PyGap(conf) /\ stage' = "critical"
    BY <2>1, <2>2, PyMains
  <2>4. PyPassed'
    BY <2>1, <2>3 DEF Inv, PyPassed
  <2>5. CppPassed'
    BY <2>1 DEF CppPassed
  <2>6. stage' \in Served
    BY <2>3 DEF Served
  <2> QED BY <2>1, <2>2, <2>4, <2>5, <2>6, ServerStep
<1>3. CASE Serve("py", "monitor", PySystemMonitor(conf), "models")
  <2>1. /\ kind = "py" /\ stage = "monitor" /\ Instances'
        /\ conf' = conf /\ kind' = kind /\ by' = by /\ sound' = sound
        /\ stage' = IF PySystemMonitor(conf) = "accepted" THEN "models" ELSE PySystemMonitor(conf)
    BY <1>3, ServeStep
  <2>2. stage \in Served /\ Typed(conf) /\ Accepted(conf)
    BY <2>1 DEF Inv, CommandsPassed, Served
  <2>3. /\ stage' = "models" \/ stage' \in {"critical", "silent"}
        /\ stage' = "models" => PySystemMonitor(conf) = "accepted"
        /\ stage' \in {"critical", "silent"} => PyGap(conf) /\ stage' = "critical"
    BY <2>1, <2>2, PyMonitors
  <2>4. PyPassed'
    BY <2>1, <2>3 DEF Inv, PyPassed
  <2>5. CppPassed'
    BY <2>1 DEF CppPassed
  <2>6. stage' \in Served
    BY <2>3 DEF Served
  <2> QED BY <2>1, <2>2, <2>4, <2>5, <2>6, ServerStep
<1>4. CASE Serve("py", "dag", PyDag(conf), "routes")
  <2>1. /\ kind = "py" /\ stage = "dag" /\ Instances'
        /\ conf' = conf /\ kind' = kind /\ by' = by /\ sound' = sound
        /\ stage' = IF PyDag(conf) = "accepted" THEN "routes" ELSE PyDag(conf)
    BY <1>4, ServeStep
  <2>2. stage \in Served /\ Typed(conf) /\ Accepted(conf)
    BY <2>1 DEF Inv, CommandsPassed, Served
  <2>3. /\ stage' = "routes" \/ stage' \in {"critical", "silent"}
        /\ stage' = "routes" => PyDag(conf) = "accepted"
        /\ stage' \in {"critical", "silent"} => PyGap(conf) /\ stage' = "critical"
    BY <2>1, <2>2, PyDags
  <2>4. PyPassed'
    BY <2>1, <2>3 DEF Inv, PyPassed
  <2>5. CppPassed'
    BY <2>1 DEF CppPassed
  <2>6. stage' \in Served
    BY <2>3 DEF Served
  <2> QED BY <2>1, <2>2, <2>4, <2>5, <2>6, ServerStep
<1>5. CASE Serve("py", "routes", PyRoutes(conf), "started")
  <2>1. /\ kind = "py" /\ stage = "routes" /\ Instances'
        /\ conf' = conf /\ kind' = kind /\ by' = by /\ sound' = sound
        /\ stage' = IF PyRoutes(conf) = "accepted" THEN "started" ELSE PyRoutes(conf)
    BY <1>5, ServeStep
  <2>2. stage \in Served /\ Typed(conf) /\ Accepted(conf)
    BY <2>1 DEF Inv, CommandsPassed, Served
  <2>3. /\ stage' = "started" \/ stage' \in {"critical", "silent"}
        /\ stage' = "started" => PyRoutes(conf) = "accepted"
        /\ stage' \in {"critical", "silent"} => PyGap(conf) /\ stage' = "critical"
    BY <2>1, <2>2, PyRoutesMade
  <2>4. PyPassed'
    BY <2>1, <2>3 DEF Inv, PyPassed
  <2>5. CppPassed'
    BY <2>1 DEF CppPassed
  <2>6. stage' \in Served
    BY <2>3 DEF Served
  <2> QED BY <2>1, <2>2, <2>4, <2>5, <2>6, ServerStep
<1>6. CASE InitModel("py", IF conf.models = "twin" /\ made # <<>> THEN "critical" ELSE PyModel(conf))
  <2> DEFINE outcome == IF conf.models = "twin" /\ made # <<>> THEN "critical" ELSE PyModel(conf)
  <2>1. /\ kind = "py" /\ stage = "models" /\ Instances'
        /\ conf' = conf /\ kind' = kind /\ by' = by /\ sound' = sound
        /\ \/ outcome = "accepted" /\ stage' \in {"models", "dag"}
              /\ (stage' = "dag" => Len(made) + 1 = Models)
           \/ outcome # "accepted" /\ stage' = outcome
    BY <1>6, ModelStep
  <2>2. stage \in Served /\ Typed(conf) /\ Accepted(conf)
    BY <2>1 DEF Inv, CommandsPassed, Served
  <2>3. conf.models = "twin" => PyGap(conf)
    BY DEF PyGap
  <2>4. /\ stage' \in {"models", "dag"} \/ stage' = "critical"
        /\ stage' = "dag" => PyModel(conf) = "accepted" /\ ~(conf.models = "twin" /\ made # <<>>)
        /\ stage' = "critical" => PyGap(conf)
    BY <2>1, <2>2, <2>3, PyModels
  <2>5. stage' = "dag" => conf.models # "twin"
    <3> SUFFICES ASSUME stage' = "dag", conf.models = "twin" PROVE FALSE
      OBVIOUS
    <3>1. made = <<>>
      BY <2>4
    <3>2. Len(made) + 1 = 2
      BY <2>1, <2>4 DEF Models
    <3> QED BY <3>1, <3>2
  <2>6. PyPassed'
    BY <2>1, <2>4, <2>5 DEF Inv, PyPassed
  <2>7. CppPassed'
    BY <2>1 DEF CppPassed
  <2>8. stage' \in Served
    BY <2>4 DEF Served
  <2> QED BY <2>1, <2>2, <2>6, <2>7, <2>8, ServerStep
<1> QED BY <1>1, <1>2, <1>3, <1>4, <1>5, <1>6 DEF PyStart

LEMMA NextInv == Inv /\ [Next]_vars => Inv'
<1> SUFFICES ASSUME Inv, [Next]_vars PROVE Inv'
  OBVIOUS
<1>1. CASE UNCHANGED vars
  BY <1>1 DEF vars, Inv, Typed, CommandsPassed, CppPassed, PyPassed, Instances
<1>2. CASE Next
  BY <1>2, ArchiveStep, DeployStep, GenerateStep, QuickStep, CppStep, PyStep DEF Next
<1> QED BY <1>1, <1>2

\* The strengthening of the properties below: what each stage has made sure of.
THEOREM Invariant == Spec => []Inv
<1>1. Init => Inv
  BY InitInv
<1>2. Inv /\ [Next]_vars => Inv'
  BY NextInv
<1> QED BY <1>1, <1>2, PTL DEF Spec

\* grpst deploy accepts the models and the dag that grpst archive accepted, and
\* the confs that a quick serve command writes.
THEOREM CommandsAlwaysAgree == Spec => []CommandsAgree
<1>1. Inv => CommandsAgree
  <2> SUFFICES ASSUME Inv PROVE CommandsAgree
    OBVIOUS
  <2>1. sound => DeployInference(conf) = "accepted"
    BY InferenceChecks DEF Inv, CommandsPassed
  <2>2. ASSUME by = "quick", stage # "refused"
        PROVE  DeployInference(conf) = "accepted" /\ DeployServer(conf) = "accepted"
    <3>1. Accepted(conf)
      BY <2>2 DEF Inv, CommandsPassed
    <3> QED BY <3>1, InferenceChecks DEF Accepted, DeployServer, Unless
  <2> QED BY <2>1, <2>2 DEF CommandsAgree
<1> QED BY <1>1, Invariant, PTL

\* Whatever keys differ from the template's: what a command accepted, the server
\* refuses exactly where the lists of differences say so.
THEOREM ListIsComplete == Spec => []StartsUnlessListed
<1>1. Inv => StartsUnlessListed
  <2> SUFFICES ASSUME Inv, stage \in {"started", "silent", "critical"}
               PROVE  /\ stage = "started" <=> IF kind = "cpp" THEN ~CppGap(conf) ELSE ~PyGap(conf)
                      /\ kind = "py" => stage # "silent"
    BY DEF StartsUnlessListed
  <2>1. Typed(conf) /\ Accepted(conf)
    BY DEF Inv, CommandsPassed, Served
  <2>2. CASE kind = "cpp"
    <3>1. CASE stage = "started"
      <4>1. ~CppGap(conf)
        BY <2>1, <2>2, <3>1, CppNoGap DEF Inv, CppPassed
      <4> QED BY <2>2, <3>1, <4>1
    <3>2. CASE stage # "started"
      <4>1. CppGap(conf)
        BY <2>2, <3>2 DEF Inv, CppPassed
      <4> QED BY <2>2, <3>2, <4>1
    <3> QED BY <3>1, <3>2
  <2>3. CASE kind = "py"
    <3>1. stage # "silent"
      BY <2>3 DEF Inv, PyPassed
    <3>2. CASE stage = "started"
      <4>1. ~PyGap(conf)
        BY <2>1, <2>3, <3>2, PyNoGap DEF Inv, PyPassed
      <4> QED BY <2>3, <3>2, <4>1
    <3>3. CASE stage # "started"
      <4>1. PyGap(conf)
        BY <2>3, <3>1, <3>3 DEF Inv, PyPassed
      <4> QED BY <2>3, <3>1, <3>3, <4>1
    <3> QED BY <3>2, <3>3
  <2> QED BY <2>2, <2>3 DEF Inv
<1> QED BY <1>1, Invariant, PTL

\* No two models have an inferer or a converter in common.
THEOREM InstancesAreOwn == Spec => []OwnInstance
<1>1. Inv => OwnInstance
  <2> SUFFICES ASSUME Inv, NEW i \in DOMAIN made, NEW j \in DOMAIN made, i # j
               PROVE  made[i].inferer # made[j].inferer /\ made[i].converter # made[j].converter
    BY DEF OwnInstance
  <2>1. i \in 1 .. Len(made) /\ j \in 1 .. Len(made)
    BY DEF Inv, Instances
  <2> QED BY <2>1 DEF Inv, Instances
<1> QED BY <1>1, Invariant, PTL
=============================================================================
