------------------------------- MODULE Config -------------------------------
(***************************************************************************)
(* The two confs of a project, inference.yml and server.yml, on their way  *)
(* from the user to a running server.  They are checked four times, each   *)
(* time by other code: by grpst archive, by grpst deploy or the quick      *)
(* serve commands, and by the server, C++ or Python, while it starts.      *)
(*                                                                         *)
(* A conf is a record of categories: what a check tells apart, and nothing *)
(* else.  "unset" is a key that is missing, "absent" a section that is.    *)
(* The confs explored are the template's, as it is or with its commented   *)
(* out section uncommented, and at most MaxOdd keys changed.               *)
(***************************************************************************)
EXTENDS Naturals, Sequences, FiniteSets, FiniteSetsExt

CONSTANTS
  Kinds,   \* the servers a project may be for: "cpp", "py"
  MaxOdd   \* bound on the keys that differ from a template's

ASSUME KindsAssumption == Kinds \subseteq {"cpp", "py"}
ASSUME MaxOddAssumption == MaxOdd \in Nat

VARIABLES
  conf,     \* the confs
  kind,     \* the server they are for
  stage,    \* the check that comes next, or how it ended
  by,       \* the command that deploys
  sound,    \* whether archive has accepted these confs
  made      \* the customized inferer and converter each model got

vars == <<conf, kind, stage, by, sound, made>>
-----------------------------------------------------------------------------
(***************************************************************************)
(* The confs.                                                              *)
(***************************************************************************)
Count    == {"positive", "zero", "negative", "text", "unset"}
Presence == {"set", "unset"}

\* The values of each key; "two" models differ in name and share the rest,
\* "twin" models share name and version too.
Domains == [
  models           |-> {"one", "two", "twin", "absent"},
  name             |-> Presence,
  version          |-> {"text", "number", "unset"},
  inferer_type     |-> {"torch", "tensorrt", "customized", "other", "unset"},
  inferer_name     |-> {"known", "unknown", "unset"},
  inferer_path     |-> {"file", "nofile", "unset"},
  inferer_args     |-> Presence,
  device           |-> {"cuda", "cpu", "original", "other", "unset"},
  inp_device       |-> {"cuda", "other", "unset"},
  converter_type   |-> {"torch", "tensorrt", "customized", "none", "other", "unset"},
  converter_name   |-> {"known", "unknown", "unset"},
  converter_path   |-> Presence,
  converter_args   |-> Presence,
  batching         |-> {"none", "dynamic", "other", "unset", "absent"},
  max_batch_size   |-> Count,
  batch_timeout_us |-> Count,
  dag              |-> {"sequential", "other", "unset", "absent"},
  dag_name         |-> Presence,
  nodes            |-> {"good", "absent", "empty", "unnamed", "untyped", "odd", "unbound", "stray"},
  interface        |-> {"set", "absent"},
  framework        |-> {"http", "http+grpc", "http+brpc", "other", "unset"},
  host             |-> {"ip", "name", "unset"},
  port             |-> {"one", "two", "equal", "text", "unset"},
  path             |-> {"good", "internal", "malformed", "unset", "absent"},
  customized_body  |-> {"bool", "text"},
  streaming_ctrl   |-> {"query_param", "other", "unset", "absent"},
  ctrl_key         |-> {"text", "number", "unset"},
  res_content_type |-> {"text", "number", "unset"},
  max_connections  |-> {"many", "few", "zero", "negative", "text", "unset"},
  max_concurrency  |-> {"many", "few", "zero", "negative", "text", "unset"},
  gpu              |-> {"torch", "none", "other", "unset", "absent"},
  mem_limit_mib    |-> Count \union {"nolimit"},
  mem_gc_enable    |-> {"true", "false", "unset"},
  mem_gc_interval  |-> Count \ {"negative"},
  streams          |-> {"positive", "zero"},
  devices          |-> {"list", "texts", "scalar", "unset"},
  log              |-> {"set", "absent"},
  log_dir          |-> {"dir", "file", "unset"},
  log_backup_count |-> Count]

Keys == DOMAIN Domains

Template == [
  models |-> "one", name |-> "set", version |-> "text", inferer_type |-> "torch",
  inferer_name |-> "known", inferer_path |-> "file", inferer_args |-> "set", device |-> "cuda",
  inp_device |-> "cuda", converter_type |-> "torch", converter_name |-> "known",
  converter_path |-> "set", converter_args |-> "set", batching |-> "dynamic",
  max_batch_size |-> "positive", batch_timeout_us |-> "positive", dag |-> "sequential",
  dag_name |-> "set", nodes |-> "good", interface |-> "set", framework |-> "http+grpc",
  host |-> "ip", port |-> "two", path |-> "absent", customized_body |-> "bool",
  streaming_ctrl |-> "absent", ctrl_key |-> "text", res_content_type |-> "text",
  max_connections |-> "many", max_concurrency |-> "few", gpu |-> "torch",
  mem_limit_mib |-> "nolimit", mem_gc_enable |-> "false", mem_gc_interval |-> "positive",
  streams |-> "positive", devices |-> "list", log |-> "set", log_dir |-> "dir", log_backup_count |-> "positive"]

\* The template with its section customized_predict_http, which it shows in a
\* comment.
Uncommented == [Template EXCEPT !.path = "good", !.streaming_ctrl = "query_param"]

\* What the keys in K may be changed to.
Overrides(K) == {g \in [K -> UNION {Domains[k] : k \in K}] : \A k \in K : g[k] \in Domains[k]}

Changed(t, g) == [k \in Keys |-> IF k \in DOMAIN g THEN g[k] ELSE t[k]]

Variants(t) ==
  UNION {{Changed(t, g) : g \in Overrides({odd[i] : i \in 1..MaxOdd})} : odd \in [1..MaxOdd -> Keys]}

Confs == Variants(Template) \union Variants(Uncommented)

\* A check is a sequence of tests, each with what follows when it fails.
Outcome(tests) ==
  LET failed == {i \in DOMAIN tests : ~tests[i][1]}
  IN  IF failed = {} THEN "accepted" ELSE tests[Min(failed)][2]

Unless(checked, outcome) == IF checked THEN "accepted" ELSE outcome

Rank == [unset |-> 0, text |-> 0, negative |-> 1, zero |-> 2, few |-> 3, many |-> 4]
-----------------------------------------------------------------------------
(***************************************************************************)
(* grpst.  Truth in Python: a missing key, an empty value and zero count   *)
(* as not set.                                                             *)
(***************************************************************************)
Builtin == {"torch", "tensorrt"}

\* One entry of models, where the three commands agree.
ModelChecked(c) ==
  /\ c.name = "set" /\ c.version # "unset"
  /\ c.inferer_type \in Builtin \union {"customized"}
  /\ c.inferer_type = "customized" => c.inferer_name # "unset"
  /\ c.converter_type \in Builtin \union {"customized", "none"}
  /\ c.converter_type = "customized" => c.converter_name # "unset"
  /\ c.device # "unset"

BatchingChecked(c) ==
  c.batching # "absent" =>
    /\ c.batching \in {"none", "dynamic"}
    /\ c.max_batch_size = "positive" /\ c.batch_timeout_us = "positive"

\* The dag, after the models: len(None) raises, and so does the sum of a name
\* and a version that is a number.
DagTests(c) == <<
  <<c.version # "number", "raised">>,
  <<c.dag = "sequential", "refused">>,
  <<c.nodes # "absent", "raised">>,
  <<c.nodes = "good", "refused">> >>

\* Mutant: archive leaves the nodes of the dag to deploy.
ArchiveModels(c) == Unless(
  /\ c.models # "absent" /\ ModelChecked(c) /\ BatchingChecked(c)
  /\ c.inferer_type \in Builtin => c.inferer_path = "file", "refused")

ArchiveInference(c) == Outcome(<<
  <<c.models # "absent" /\ ModelChecked(c), "refused">>,
  <<c.inferer_type \in Builtin => c.inferer_path = "file", "refused">>,
  <<BatchingChecked(c), "refused">> >> \o DagTests(c))

DeployInference(c) == Outcome(<<
  <<c.models # "absent" /\ ModelChecked(c), "refused">>,
  <<c.inferer_type \in Builtin => c.inferer_path # "unset", "refused">>,
  <<BatchingChecked(c), "refused">> >> \o DagTests(c))

QuickInference(c) == Outcome(<<
  <<c.models # "absent" /\ ModelChecked(c), "refused">>,
  <<c.device # "other", "refused">>,
  <<c.device = "original" /\ c.inferer_type = "torch" => c.inp_device = "cuda", "refused">>,
  <<BatchingChecked(c), "refused">> >> \o DagTests(c))

InterfaceChecked(c) ==
  /\ c.interface = "set"
  /\ c.framework \in {"http", "http+grpc", "http+brpc"} /\ c.host = "ip"
  /\ c.port \in {"one", "two", "equal"}
  /\ c.path # "absent" => c.path = "good" /\ c.customized_body = "bool"

LimitsChecked(c) ==
  /\ c.max_connections \in {"many", "few", "negative"}
  /\ c.max_concurrency \in {"many", "few", "negative"}
  /\ Rank[c.max_concurrency] <= Rank[c.max_connections]

GpuChecked(c) ==
  c.gpu # "absent" =>
    /\ c.gpu \in {"torch", "none"}
    /\ c.gpu = "torch" =>
         /\ c.mem_limit_mib \in {"positive", "nolimit", "negative"}
         /\ c.mem_gc_enable # "unset"
         /\ c.mem_gc_enable = "true" => c.mem_gc_interval = "positive"
    /\ c.devices = "list"

LogChecked(c) ==
  c.log = "set" /\ c.log_dir = "dir" /\ c.log_backup_count = "positive"

ArchiveServer(c) == Unless(GpuChecked(c) /\ LogChecked(c), "refused")

\* Mutant: the gpu section is left to the server.
DeployWithoutGpu(c) ==
  Unless(InterfaceChecked(c) /\ LimitsChecked(c) /\ LogChecked(c), "refused")

DeployServer(c) ==
  Unless(InterfaceChecked(c) /\ LimitsChecked(c) /\ GpuChecked(c) /\ LogChecked(c), "refused")

QuickServer(c) ==
  Unless(InterfaceChecked(c) /\ LimitsChecked(c) /\ GpuChecked(c) /\ LogChecked(c), "refused")

\* The conf of quick serve: the built-in project's, with the arguments of the
\* command in it.
ArgumentKeys == {
  "inferer_type", "inferer_path", "device", "inp_device", "batching", "max_batch_size",
  "batch_timeout_us", "framework", "port", "path", "max_connections", "max_concurrency",
  "mem_limit_mib", "mem_gc_enable", "mem_gc_interval", "log_dir", "log_backup_count"}

GenConf(c) ==
  [k \in Keys |->
     CASE k \in ArgumentKeys    -> c[k]
       [] k = "converter_type"  -> c.inferer_type
       [] k = "gpu"             -> IF c.inferer_type = "torch" THEN "torch" ELSE "none"
       [] OTHER                 -> Template[k]]

\* argparse fills in defaults and converts numbers.
IsArguments(c) ==
  /\ c.inferer_type \in Builtin /\ c.framework \in {"http", "http+grpc", "http+brpc"}
  /\ \A k \in ArgumentKeys : c[k] # "unset"
  /\ "text" \notin {c[k] : k \in ArgumentKeys \ {"port"}} /\ c.batching # "absent"
-----------------------------------------------------------------------------
(***************************************************************************)
(* The C++ server.  A load that fails is not in the log, for the logger    *)
(* comes later; what fails after it is logged and aborts.                  *)
(***************************************************************************)
\* YAML_TRY_EXTRACT wants the key, whatever its value is used for.
Has(c, keys)     == \A k \in keys : c[k] # "unset"
HasInts(c, keys) == \A k \in keys : c[k] \notin {"text", "unset"}

CppLoadServer(c) == Unless(
  /\ c.interface = "set" /\ Has(c, {"framework", "host", "port"})
  /\ c.path # "absent" =>
       /\ c.path \in {"good", "internal"} /\ c.customized_body = "bool"
       /\ c.streaming_ctrl # "absent" =>
            c.streaming_ctrl = "query_param" /\ Has(c, {"ctrl_key", "res_content_type"})
  /\ HasInts(c, {"max_connections", "max_concurrency"})
  /\ c.gpu # "absent" =>
       /\ c.gpu # "unset" /\ c.devices = "list"
       /\ c.gpu # "none" =>
            /\ Has(c, {"mem_gc_enable"}) /\ HasInts(c, {"mem_limit_mib", "mem_gc_interval"})
  /\ c.log = "set" /\ Has(c, {"log_dir"}) /\ c.log_backup_count = "positive", "silent")

CppLoadInference(c) == Unless(
  /\ c.models \notin {"absent", "twin"}
  /\ Has(c, {"name", "version", "device", "inferer_type", "inferer_name", "inferer_path",
             "inferer_args", "converter_type", "converter_name", "converter_path", "converter_args"})
  /\ c.device = "original" /\ c.inferer_type = "torch" => Has(c, {"inp_device"})
  /\ c.batching # "absent" =>
       Has(c, {"batching"}) /\ HasInts(c, {"max_batch_size", "batch_timeout_us"})
  /\ c.dag # "absent" /\ Has(c, {"dag", "dag_name"})
  /\ c.nodes \notin {"absent", "unnamed", "untyped", "unbound"}, "silent")

CppSystemMonitor(c) == Unless(
  c.gpu # "absent" =>
    /\ c.gpu # "other"
    /\ c.gpu = "torch" =>
         /\ c.mem_gc_enable = "true" => c.mem_gc_interval = "positive"
         /\ c.mem_limit_mib \in {"positive", "nolimit"}, "critical")

\* Init and Load of the built-in inferers: the device, and the file.
CppTorch(c) ==
  c.inferer_type = "torch" =>
    c.device # "other" /\ (c.device = "original" => c.inp_device = "cuda") /\ c.inferer_path = "file"
CppTrt(c) ==
  c.inferer_type = "tensorrt" => c.device \in {"cuda", "original"} /\ c.inferer_path = "file"

CppModel(c) == Unless(
  /\ c.inferer_type # "other" /\ (c.inferer_type = "customized" => c.inferer_name = "known")
  /\ CppTorch(c) /\ CppTrt(c)
  /\ c.converter_type # "other" /\ (c.converter_type = "customized" => c.converter_name = "known")
  /\ c.batching # "other", "critical")

CppDag(c) == Unless(c.dag = "sequential" /\ c.nodes \in {"good", "empty"}, "critical")

\* main: the ports, and the size of the thread pool, whose constructor throws.
CppMain(c) == Outcome(<<
  <<c.framework \in {"http", "http+grpc", "http+brpc"} /\ c.host = "ip", "critical">>,
  <<\/ c.framework = "http" /\ c.port = "one"
    \/ c.framework # "http" /\ c.port \in {"two", "equal"}, "critical">>,
  <<c.max_concurrency # "negative", "silent">> >>)
-----------------------------------------------------------------------------
(***************************************************************************)
(* The Python server.                                                      *)
(***************************************************************************)
\* Config of conf.py, imported before there is a logger.
PyLoad(c) == Unless(c.log = "set" /\ c.log_dir = "dir", "silent")

PyMain(c) == Unless(
  /\ c.interface = "set" /\ c.host = "ip"
  /\ \/ c.framework = "http" /\ c.port = "one"
     \/ c.framework = "http+grpc" /\ c.port = "two"
  /\ {c.max_connections, c.max_concurrency} \subseteq {"many", "few"}, "critical")

PySystemMonitor(c) == Unless(
  c.gpu # "absent" =>
    /\ c.gpu \in {"torch", "none"} /\ c.devices = "list"
    /\ c.gpu = "torch" =>
         /\ c.mem_gc_enable = "true" => c.mem_gc_interval = "positive"
         /\ c.mem_limit_mib \in {"positive", "nolimit"}, "critical")

PyTorch(c) ==
  c.inferer_type = "torch" =>
    /\ c.device \notin {"other", "unset"} /\ (c.device = "original" => c.inp_device = "cuda")
    /\ c.inferer_path = "file"
PyTrt(c) ==
  c.inferer_type = "tensorrt" => c.device \in {"cuda", "original"} /\ c.inferer_path = "file"

PyModel(c) == Unless(
  /\ c.models # "absent" /\ c.name = "set" /\ c.version = "text"
  /\ c.inferer_type \in Builtin \union {"customized"}
  /\ c.inferer_type = "customized" => c.inferer_name = "known"
  /\ PyTorch(c) /\ PyTrt(c)
  /\ c.converter_type \in Builtin \union {"customized", "none"}
  /\ c.converter_type = "customized" => c.converter_name = "known"
  /\ BatchingChecked(c), "critical")

PyDag(c) == Unless(
  c.dag = "sequential" /\ c.dag_name = "set" /\ c.nodes \in {"good", "empty"}, "critical")

\* GrpsFlaskApp and HttpHandler.
PyRoutes(c) == Unless(
  c.path # "absent" =>
    /\ c.path \in {"good", "malformed"} /\ c.customized_body = "bool"
    /\ c.streaming_ctrl # "absent" =>
         c.streaming_ctrl # "other" /\ "number" \notin {c.ctrl_key, c.res_content_type}, "critical")
-----------------------------------------------------------------------------
(***************************************************************************)
(* The way of the confs.                                                   *)
(***************************************************************************)
\* A project is archived and then deployed, with its own confs or with others
\* ("confs" without archive); or a quick serve command makes them.
Init ==
  /\ conf \in Confs /\ kind \in Kinds
  /\ stage \in {"project", "confs"} \union IF IsArguments(conf) THEN {"arguments"} ELSE {}
  /\ by = "none" /\ sound = FALSE /\ made = <<>>

Check(from, outcome, to) ==
  /\ stage = from
  /\ stage' = IF outcome = "accepted" THEN to ELSE outcome

Archive ==
  LET inference == ArchiveInference(conf)
      outcome   == IF inference = "accepted" THEN ArchiveServer(conf) ELSE inference
  IN  /\ Check("project", outcome, "confs")
      /\ sound' = (outcome = "accepted") /\ UNCHANGED <<conf, kind, by, made>>

DeployPrepare ==
  LET inference == DeployInference(conf)
      outcome   == IF inference = "accepted" THEN DeployServer(conf) ELSE inference
  IN  /\ Check("confs", outcome, "load")
      /\ by' = "deploy" /\ UNCHANGED <<conf, kind, sound, made>>

Generate ==
  /\ Check("arguments", Unless(conf.streams = "positive" /\ conf.devices = "list", "refused"), "generated")
  /\ conf' = GenConf(conf) /\ UNCHANGED <<kind, by, sound, made>>

QuickPrepare ==
  LET inference == QuickInference(conf)
      outcome   == IF inference = "accepted" THEN QuickServer(conf) ELSE inference
  IN  /\ Check("generated", outcome, "load")
      /\ by' = "quick" /\ UNCHANGED <<conf, kind, sound, made>>

-----------------------------------------------------------------------------
(***************************************************************************)
(* The start of the server that was deployed.                              *)
(***************************************************************************)
Serve(server, from, outcome, to) ==
  kind = server /\ Check(from, outcome, to) /\ UNCHANGED <<conf, kind, by, sound, made>>

Models == IF conf.models = "one" THEN 1 ELSE 2

\* Mutant: the registered instance serves every model.
Shared(type, taken) == IF type = "customized" THEN 0 ELSE Len(made) + 1

\* The inferer or converter of the next model: the registered instance, 0, for
\* the first model that names a customized one, and a new one for the others.
Instance(type, taken) == IF type = "customized" /\ 0 \notin taken THEN 0 ELSE Len(made) + 1

\* Where the loop over the models goes when n are made.
AfterModel(n) == IF n = Models THEN "dag" ELSE "models"

\* One turn of the loop.
InitModel(server, outcome) ==
  /\ kind = server /\ stage = "models"
  /\ IF outcome = "accepted"
     THEN /\ made' = Append(made,
               [inferer   |-> Instance(conf.inferer_type, {made[i].inferer : i \in DOMAIN made}),
                converter |-> Instance(conf.converter_type, {made[i].converter : i \in DOMAIN made})])
          /\ stage' = AfterModel(Len(made'))
     ELSE stage' = outcome /\ UNCHANGED made
  /\ UNCHANGED <<conf, kind, by, sound>>

\* The customized path is looked at last.  Equal ports: which of the two servers
\* binds them is a race, and a gRPC server that could not be built is a null
\* pointer.
Bind ==
  /\ kind = "cpp" /\ stage = "bind"
  /\ stage' \in IF conf.path = "internal" THEN {"critical"}
              ELSE IF conf.port = "equal" THEN {"critical", "silent"} ELSE {"started"}
  /\ UNCHANGED <<conf, kind, by, sound, made>>

CppStart ==
  \/ Serve("cpp", "load", CppLoadServer(conf), "loadInference")
  \/ Serve("cpp", "loadInference", CppLoadInference(conf), "monitor")
  \/ Serve("cpp", "monitor", CppSystemMonitor(conf), "models")
  \/ InitModel("cpp", CppModel(conf))
  \/ Serve("cpp", "dag", CppDag(conf), "main")
  \/ Serve("cpp", "main", CppMain(conf), "bind")
  \/ Bind

PyStart ==
  \/ Serve("py", "load", PyLoad(conf), "main")
  \/ Serve("py", "main", PyMain(conf), "monitor")
  \/ Serve("py", "monitor", PySystemMonitor(conf), "models")
  \/ InitModel("py", IF conf.models = "twin" /\ made # <<>> THEN "critical" ELSE PyModel(conf))
  \/ Serve("py", "dag", PyDag(conf), "routes")
  \/ Serve("py", "routes", PyRoutes(conf), "started")

Next == Archive \/ DeployPrepare \/ Generate \/ QuickPrepare \/ CppStart \/ PyStart

Spec == Init /\ [][Next]_vars
-----------------------------------------------------------------------------
(***************************************************************************)
(* Properties.                                                             *)
(***************************************************************************)
\* The commands agree, though each checks with code of its own: grpst deploy
\* accepts what grpst archive accepted, as far as the models and the dag go,
\* and the confs that a quick serve command writes for its server.
CommandsAgree ==
  /\ sound => DeployInference(conf) = "accepted"
  /\ by = "quick" /\ stage # "refused" =>
       DeployInference(conf) = "accepted" /\ DeployServer(conf) = "accepted"

\* What passes the checks of a command, and the C++ server refuses: keys the
\* commands take for optional and the server does not, even where their value
\* is used for nothing, and values that only the server looks at.
CppGap(c) ==
  \/ \E k \in {"inferer_name", "inferer_path", "inferer_args", "converter_name",
               "converter_path", "converter_args", "dag_name"} : c[k] = "unset"
  \/ c.device = "original" /\ c.inferer_type = "torch" /\ c.inp_device # "cuda"
  \/ c.device = "other" /\ c.inferer_type \in Builtin
  \/ c.device = "cpu" /\ c.inferer_type = "tensorrt"
  \/ c.inferer_path = "nofile" /\ c.inferer_type \in Builtin
  \/ c.models = "twin"
  \/ c.inferer_type = "customized" /\ c.inferer_name = "unknown"
  \/ c.converter_type = "customized" /\ c.converter_name = "unknown"
  \/ c.port # (IF c.framework = "http" THEN "one" ELSE "two")
  \/ c.path = "internal"
  \/ /\ c.path = "good" /\ c.streaming_ctrl # "absent"
     /\ c.streaming_ctrl # "query_param" \/ "unset" \in {c.ctrl_key, c.res_content_type}
  \/ c.max_concurrency = "negative"
  \/ c.gpu = "torch" /\ (c.mem_limit_mib = "negative" \/ c.mem_gc_interval \in {"text", "unset"})

\* The same of the Python server.
PyGap(c) ==
  \/ c.dag_name = "unset"
  \/ c.device = "original" /\ c.inferer_type = "torch" /\ c.inp_device # "cuda"
  \/ c.device = "other" /\ c.inferer_type \in Builtin
  \/ c.device = "cpu" /\ c.inferer_type = "tensorrt"
  \/ c.inferer_path = "nofile" /\ c.inferer_type \in Builtin
  \/ c.models = "twin"
  \/ c.inferer_type = "customized" /\ c.inferer_name = "unknown"
  \/ c.converter_type = "customized" /\ c.converter_name = "unknown"
  \/ c.framework = "http+brpc" \/ c.port # (IF c.framework = "http" THEN "one" ELSE "two")
  \/ /\ c.path = "good" /\ c.streaming_ctrl # "absent"
     /\ c.streaming_ctrl = "other" \/ "number" \in {c.ctrl_key, c.res_content_type}
  \/ "negative" \in {c.max_connections, c.max_concurrency}
  \/ c.gpu = "torch" /\ c.mem_limit_mib = "negative"

\* A server that a command has accepted the confs of starts, except for the
\* differences listed above, and every one of these stops it: the checks of
\* the commands and those of the servers agree on everything else.  And a
\* Python server that stops has said why in its log, for its logger needs
\* nothing that deploy has not looked at.
StartsUnlessListed ==
  stage \in {"started", "silent", "critical"} =>
    /\ stage = "started" <=> IF kind = "cpp" THEN ~CppGap(conf) ELSE ~PyGap(conf)
    /\ kind = "py" => stage # "silent"

\* Two models never share an inferer or a converter, for these keep the state
\* of their model.
OwnInstance ==
  \A i, j \in DOMAIN made :
    i # j => made[i].inferer # made[j].inferer /\ made[i].converter # made[j].converter
=============================================================================
