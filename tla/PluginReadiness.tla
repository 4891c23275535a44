-------------------------- MODULE PluginReadiness --------------------------
(* Whether a plugin may run: what the list of plugins tells an administrator,  *)
(* and what a run checks again, each from the manifest, the stored state and   *)
(* the places a secret may come from.  Pure functions of their arguments.      *)
EXTENDS Naturals, Sequences

CONSTANTS
  Names,         \* names of secrets that manifests declare
  Variables,     \* names of environment variables a plugin's process sees
  Normal,        \* the variable of each name; two names may share one
  Permissions,   \* permissions that exist
  EnvNames,      \* references that name an environment variable
  FileRefs,      \* references of the form file:PATH
  NoRef, NoValue \* an empty reference, an empty value

ASSUME NormalAssumption == Normal \in [Names -> Variables]
ASSUME RefsAssumption == NoRef \notin EnvNames \union FileRefs /\ EnvNames \cap FileRefs = {}

Refs == EnvNames \union FileRefs \union {NoRef}

(* A manifest is [permissions, secrets], secrets the declarations in their     *)
(* order, which may name a secret twice.  A world is [env, files, disk]: the   *)
(* process's environment, the candidate env files in their order, the secret   *)
(* files.                                                                      *)

\* the first env file that gives the variable a value
FromFiles(ref, files) ==
  LET given == {i \in DOMAIN files : files[i][ref] # NoValue}
  IN  IF given = {} THEN NoValue
      ELSE files[CHOOSE i \in given : \A j \in given : i <= j][ref]

Resolve(ref, w) ==
  CASE ref = NoRef -> NoValue
    [] ref \in FileRefs -> w.disk[ref]
    [] ref \in EnvNames -> IF w.env[ref] # NoValue THEN w.env[ref]
                           ELSE FromFiles(ref, w.files)

Declared(m) == {m.secrets[i].name : i \in DOMAIN m.secrets}

\* public_plugin looks at every declaration
Required(m) == {m.secrets[i].name : i \in {j \in DOMAIN m.secrets : m.secrets[j].required}}

\* in _secret_environment's dictionary the last one of a name is left
RequiredLast(m) ==
  {m.secrets[i].name : i \in {j \in DOMAIN m.secrets :
     m.secrets[j].required
       /\ \A k \in DOMAIN m.secrets : k > j => m.secrets[k].name # m.secrets[j].name}}

\* one directory after the other; the later of two plugins with one id stays
Discover(bundled, user) ==
  [id \in DOMAIN bundled \union DOMAIN user |->
     IF id \in DOMAIN user THEN user[id] ELSE bundled[id]]

\* install_marketplace_item: no plugin with this id comes from elsewhere
MayInstall(id, bundled, user) == id \in DOMAIN Discover(bundled, user) => id \in DOMAIN user

\* update_plugin_state keeps what the manifest declares, and no file references
Stored(m, approvals, refs) ==
  [approvals |-> approvals \cap m.permissions,
   refs |-> [n \in Names |->
               IF n \in Declared(m) /\ refs[n] \in EnvNames THEN refs[n] ELSE NoRef]]

\* what list_plugins takes a plugin without a row to have
NoState == [approvals |-> {}, refs |-> [n \in Names |-> NoRef]]

\* public_plugin: permission_ready, required_secrets_ready, runtime_ready
PermissionReady(m, st) == m.permissions \subseteq st.approvals

Ready(m, st, w) ==
  /\ PermissionReady(m, st)
  /\ \A n \in Required(m) : Resolve(st.refs[n], w) # NoValue

\* _secret_environment: the variables that get a value; a later name that
\* shares the variable replaces it by another value
Given(m, st, w) ==
  {Normal[n] : n \in {k \in Declared(m) : Resolve(st.refs[k], w) # NoValue}}

\* run_plugin_widget raises neither PermissionError nor RuntimeError
Accepted(m, st, w) ==
  /\ PermissionReady(m, st)
  /\ \A n \in RequiredLast(m) : Normal[n] \in Given(m, st, w)

-----------------------------------------------------------------------------
Secrets == [name : Names, required : BOOLEAN]
Manifests == [permissions : SUBSET Permissions, secrets : Seq(Secrets)]
States == [approvals : SUBSET Permissions, refs : [Names -> Refs]]
Worlds(Values, n) ==
  [env : [EnvNames -> Values], files : [1..n -> [EnvNames -> Values]],
   disk : [FileRefs -> Values]]

(* The list and the run decide apart, from the same state: whatever the list   *)
(* calls ready the run accepts, wherever its secrets come from.                *)
ReadyIsAccepted(Ms, Values, n) ==
  \A m \in Ms, st \in States, w \in Worlds(Values, n) :
    Ready(m, st, w) => Accepted(m, st, w)

\* no two declarations share a variable, as those of one name do
Apart(m) ==
  \A i, j \in DOMAIN m.secrets :
    Normal[m.secrets[i].name] = Normal[m.secrets[j].name] => i = j

(* What the run accepts the list calls ready, if declarations do not share     *)
(* variables.  Where they do the two really disagree: the run takes another    *)
(* secret's value, or another declaration's word, for a required one.          *)
AcceptedIsReady(Ms, Values, n) ==
  \A m \in Ms, st \in States, w \in Worlds(Values, n) :
    Apart(m) /\ Accepted(m, st, w) => Ready(m, st, w)

(* Saving drops only what the plugin does not declare, so it is as ready with  *)
(* what was saved as with what was sent - unless a file reference was sent,    *)
(* which is never saved.                                                       *)
SavingKeepsReadiness(Ms, Values, n) ==
  \A m \in Ms, st \in States, w \in Worlds(Values, n) :
    (\A k \in Names : st.refs[k] \notin FileRefs)
      => (Ready(m, st, w) <=> Ready(m, Stored(m, st.approvals, st.refs), w))

(* While no installed plugin has a bundled id, installing one that passes the  *)
(* check changes no bundled plugin.                                            *)
BundledStays(Ids, Values) ==
  \A B \in SUBSET Ids, id \in Ids, v \in Values :
    \A bundled \in [B -> Values], user \in [Ids \ B -> Values] :
      MayInstall(id, bundled, user) =>
        \A b \in B : Discover(bundled, [i \in DOMAIN user \union {id} |->
                                        IF i = id THEN v ELSE user[i]])[b] = bundled[b]
=============================================================================
