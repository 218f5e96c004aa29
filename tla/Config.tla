------------------------------- MODULE Config -------------------------------
(***************************************************************************)
(* The configuration of wake: src/runtime/config.h and config.cpp.         *)
(*                                                                         *)
(* Every key is a policy that says where it may be set.  Four layers       *)
(* provide settings: .wakeroot, the user's config file, the environment    *)
(* and the command line.  The path of the user's file is itself a setting, *)
(* so the layers above that file are applied before it is read and again   *)
(* after it.                                                               *)
(*                                                                         *)
(* A setting is Absent, IllTyped (a JSON value of a kind the policy does   *)
(* not take, or an environment string that does not parse) or Set(v).  A   *)
(* layer is a function from keys to settings; a file is a record that says *)
(* whether the file is missing, blank, not JSON, or an object.  A path is  *)
(* its parts and whether it starts with "~"; `sh` is what the shell and    *)
(* the default path depend on: HOME, XDG_CONFIG_HOME (each a sequence that *)
(* holds the value, or is empty) and whether /bin/sh works.                *)
(***************************************************************************)
EXTENDS Integers, Sequences

Absent == [t |-> "absent"]
IllTyped == [t |-> "ill"]
Set(v) == [t |-> "set", v |-> v]

Literal(parts) == [tilde |-> FALSE, parts |-> parts]

\* shell_expand: what `echo` makes of a path.
shell_expand(path, sh) == IF path.tilde THEN Literal(sh.HOME[1] \o path.parts) ELSE path

\* default_user_config
default_user_config(sh) ==
  Literal((IF sh.XDG_CONFIG_HOME # <<>> THEN sh.XDG_CONFIG_HOME[1] ELSE Append(sh.HOME[1], ".config"))
          \o <<"wake.json">>)

\* Both end the process when they cannot work.
ShellFails(sh) == sh.HOME = <<>> \/ ~sh.works

Policy(root, user, over, env, init) ==
  [allowed_in_wakeroot |-> root, allowed_in_userconfig |-> user,
   override_value |-> over, env_var |-> env, default |-> init]

\* WakeConfigImplFull: the eleven policies.
Policies ==
  [user_config                   |-> Policy(TRUE, FALSE, TRUE, TRUE, "computed"),
   version                       |-> Policy(TRUE, FALSE, FALSE, FALSE, <<>>),
   log_header                    |-> Policy(TRUE, TRUE, TRUE, FALSE, "default"),
   log_header_source_width       |-> Policy(TRUE, TRUE, TRUE, FALSE, "default"),
   label_filter                  |-> Policy(FALSE, FALSE, TRUE, FALSE, "default"),
   cache_miss_on_failure         |-> Policy(TRUE, TRUE, TRUE, TRUE, "default"),
   log_header_align              |-> Policy(TRUE, TRUE, TRUE, FALSE, "default"),
   bulk_logging_dir              |-> Policy(FALSE, TRUE, FALSE, TRUE, "default"),
   interpreter_runtime_warning_s |-> Policy(TRUE, TRUE, FALSE, TRUE, "default"),
   heap_factor                   |-> Policy(TRUE, FALSE, TRUE, FALSE, "default"),
   heap_pivot_mb                 |-> Policy(TRUE, FALSE, TRUE, FALSE, "default")]

Keys == DOMAIN Policies

wakeroot_allowed_keys == {k \in Keys : Policies[k].allowed_in_wakeroot}
userconfig_allowed_keys == {k \in Keys : Policies[k].allowed_in_userconfig}

\* The config before any layer.
DefaultValue(k, sh) ==
  IF k = "user_config" THEN shell_expand(default_user_config(sh), sh) ELSE Policies[k].default

DefaultConfig(sh) == [k \in Keys |-> [value |-> DefaultValue(k, sh), provenance |-> "Default"]]

\* P::set for JSON: a value of the wrong kind leaves the policy as it was.
\* The path of the user's config is expanded as the shell would.
SetJson(k, old, s, sh) ==
  IF s = IllTyped THEN old
  ELSE IF k = "user_config" THEN shell_expand(s.v, sh) ELSE s.v

\* set_all<p>: the provenance is noted before the kind of the value is looked
\* at.
set_all(c, p, allowed, json, sh) ==
  [k \in Keys |->
     IF k \in allowed /\ json[k] # Absent
     THEN [value |-> SetJson(k, c[k].value, json[k], sh), provenance |-> p]
     ELSE c[k]]

set_all_env_var(c, env) ==
  [k \in Keys |->
     IF Policies[k].env_var /\ env[k] # Absent
     THEN [value |-> env[k].v, provenance |-> "EnvVar"]
     ELSE c[k]]

override_all(c, overrides) ==
  [k \in Keys |->
     IF Policies[k].override_value /\ overrides[k] # Absent
     THEN [value |-> overrides[k].v, provenance |-> "Commandline"]
     ELSE c[k]]

\* read_json_file: a file that cannot be opened and one that does not parse
\* are different errors.
read_json_file(file) ==
  CASE file.kind = "missing" -> [ok |-> FALSE, error |-> "BadFile"]
    [] file.kind \in {"blank", "text"} -> [ok |-> FALSE, error |-> "InvalidJson"]
    [] file.kind = "object" -> [ok |-> TRUE, json |-> file.json]

\* std::stod throws on the only environment variable that is parsed, and
\* nothing catches it.
EnvThrows(env) == env["interpreter_runtime_warning_s"] = IllTyped

\* WakeConfig::init when .wakeroot is read: blank is an empty object, missing
\* is allowed, anything else that does not parse is not.
WakerootJson(wakeroot) ==
  LET res == read_json_file(wakeroot)
      empty == [ok |-> TRUE, json |-> [k \in Keys |-> Absent]]
  IN  IF wakeroot.kind = "blank" THEN empty
      ELSE IF ~res.ok THEN IF res.error = "BadFile" THEN empty ELSE res
      ELSE res

\* The layers that may name the user's file, applied before it is read.
BeforeUser(wakeroot, env, overrides, sh) ==
  override_all(set_all_env_var(
    set_all(DefaultConfig(sh), "WakeRoot", wakeroot_allowed_keys, WakerootJson(wakeroot).json, sh),
    env), overrides)

\* (mutant of WithUser) The environment is not applied again.
WithUserOnce(c, json, env, overrides, sh) ==
  override_all(set_all(c, "UserConfig", userconfig_allowed_keys, json, sh), overrides)

\* The user's file, then again the layers that outrank it.
WithUser(c, json, env, overrides, sh) ==
  override_all(set_all_env_var(
    set_all(c, "UserConfig", userconfig_allowed_keys, json, sh), env), overrides)

\* The file at a path, of those the machine has.
FileAt(files, path) ==
  IF ~path.tilde /\ path.parts \in DOMAIN files THEN files[path.parts] ELSE [kind |-> "missing"]

\* WakeConfig::init.  The result is "failed", "thrown" or "ok" with the config.
WakeConfig_init(wakeroot, env, overrides, sh, files) ==
  IF ShellFails(sh) \/ ~WakerootJson(wakeroot).ok THEN [result |-> "failed"]
  ELSE IF EnvThrows(env) THEN [result |-> "thrown"]
  ELSE LET c == BeforeUser(wakeroot, env, overrides, sh)
           user == read_json_file(FileAt(files, c["user_config"].value))
       IN  IF user.ok
           THEN [result |-> "ok", config |-> WithUser(c, user.json, env, overrides, sh)]
           ELSE IF user.error = "BadFile"
                THEN [result |-> "ok", config |-> override_all(c, overrides)]
                ELSE [result |-> "failed"]

-----------------------------------------------------------------------------
(***************************************************************************)
(* What the comment in WakeConfig::init promises: command line over        *)
(* environment over user config over .wakeroot, and the default where none *)
(* of them gives a usable value.                                           *)
(***************************************************************************)
Usable(allowed, s) == allowed /\ s.t = "set"

\* The sequence of settings for key k, highest priority first.
Providers(k, wakeroot, env, overrides, user, sh) ==
  << IF Usable(Policies[k].override_value, overrides[k]) THEN overrides[k] ELSE Absent,
     IF Usable(Policies[k].env_var, env[k]) THEN env[k] ELSE Absent,
     IF user.kind = "object" /\ Usable(k \in userconfig_allowed_keys, user.json[k])
       THEN user.json[k] ELSE Absent,
     IF wakeroot.kind = "object" /\ Usable(k \in wakeroot_allowed_keys, wakeroot.json[k])
       THEN IF k = "user_config" THEN Set(shell_expand(wakeroot.json[k].v, sh))
                                 ELSE wakeroot.json[k]
       ELSE Absent,
     Set(DefaultValue(k, sh)) >>

PromisedValue(k, wakeroot, env, overrides, user, sh) ==
  LET p == Providers(k, wakeroot, env, overrides, user, sh)
      first == CHOOSE i \in DOMAIN p : p[i] # Absent /\ \A j \in 1..(i - 1) : p[j] = Absent
  IN  p[first].v
=============================================================================
