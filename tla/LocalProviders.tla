--------------------------- MODULE LocalProviders --------------------------
(***************************************************************************)
(* The providers that keep their state in files of this machine: records   *)
(* of credentials, storage logs, settings layers and the workspace.  They  *)
(* share no state and no lock; what each is promised to do must hold       *)
(* whatever its own callers interleave, so a behaviour exercises one of    *)
(* them.                                                                   *)
(***************************************************************************)
EXTENDS CredentialStore, JsonlStorage, SettingsFile, FsSuite

CONSTANT Exercised   \* the providers a behaviour may exercise

VARIABLE provider    \* the one it does

allVars == <<provider, credVars, storeVars, setVars, suiteVars>>

CredOff     == CredFrom(CHOOSE f \in CredFaultSets : TRUE)
StoreOff    == StoreFrom(CHOOSE f \in StoreFaultSets : TRUE)
SettingsOff == SettingsFrom(CHOOSE ls \in Stacks : TRUE)
FsOff       == LET env == CHOOSE e \in FsEnvironments : ~e.suite
               IN  FsFrom(env, CHOOSE t \in env.trees : TRUE) /\ suite = NoSuite

Init ==
  /\ provider \in Exercised
  /\ IF provider = "credentials" THEN CredInit     ELSE CredOff
  /\ IF provider = "storage"     THEN StoreInit    ELSE StoreOff
  /\ IF provider = "settings"    THEN SettingsInit ELSE SettingsOff
  /\ IF provider = "files"       THEN FsInit /\ SuiteInit ELSE FsOff

Next ==
  \/ provider = "credentials" /\ CredNext  /\ UNCHANGED <<provider, storeVars, setVars, suiteVars>>
  \/ provider = "storage"  /\ StoreNext    /\ UNCHANGED <<provider, credVars, setVars, suiteVars>>
  \/ provider = "settings" /\ SettingsNext /\ UNCHANGED <<provider, credVars, storeVars, suiteVars>>
  \/ provider = "files"    /\ SuiteNext    /\ UNCHANGED <<provider, credVars, storeVars, setVars>>

Spec == Init /\ [][Next]_allVars

=============================================================================
