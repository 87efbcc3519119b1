---------------------------- MODULE ProfileStore ----------------------------
(***************************************************************************)
(* The profile store (crates/core/src/profile.rs, ProfileStore): a         *)
(* configuration is kept as config.toml, which names the active profile,   *)
(* and a file per profile.  A save writes all of them in turn and then     *)
(* removes the files of other profiles.  fs::write truncates before it     *)
(* writes, so that a crash, possible at any step, can leave a file torn.   *)
(*                                                                         *)
(* A profile is a name and a content; names are ordered, as file names and *)
(* as keys of a BTreeMap alike.  A profile the daemon keeps under a name   *)
(* bears that name, but a file from elsewhere may not.                     *)
(***************************************************************************)
EXTENDS Naturals, FiniteSets, FiniteSetsExt

CONSTANTS
    Names,      \* names of profiles, and of their files without ".toml"
    Default,    \* "Default"
    Shipped,    \* the names of the profiles that exist without any file
    Contents,   \* what a profile may hold
    Fresh,      \* the content of a shipped profile
    Foreign,    \* files that may be put into the directory by hand
    Absent,     \* no such file
    Torn,       \* a file that cannot be parsed
    Faults      \* what may fail: a subset of {"read", "write", "remove"}

ASSUME StoreAssumption ==
    /\ Names \subseteq Nat /\ IsFiniteSet(Names)
    /\ Default \in Shipped /\ Shipped \subseteq Names
    /\ Fresh \in Contents
    /\ Foreign \subseteq [stem : Names, name : Names, content : Contents]
    /\ Absent # Torn /\ {Absent, Torn} \cap Names = {}
    /\ {Absent, Torn} \cap [name : Names, content : Contents] = {}
    /\ Faults \subseteq {"read", "write", "remove"}

VARIABLES
    conf,       \* config.toml: Absent, Torn or the active profile's name
    file,       \* file[n]: n.toml: Absent, Torn or a profile
    config,     \* the daemon's AppConfig
    last,       \* what was last loaded, or saved completely
    clean,      \* no save has failed since
    undeleted,  \* files the last save could not remove
    pc,         \* "off", "idle", or where the save is
    todo        \* files the save has yet to write or to remove

files == <<conf, file>>
vars == <<conf, file, config, last, clean, undeleted, pc, todo>>

-----------------------------------------------------------------------------
\* The files that parse, and the profiles in them. Of two files with the same
\* profile the later one counts.
Parsed == {m \in Names : file[m] \notin {Absent, Torn}}
FilesOf(n) == {m \in Parsed : file[m].name = n}
Stored == [n \in {file[m].name : m \in Parsed} |-> file[Max(FilesOf(n))].content]

\* AppConfig::default
Defaults == [active |-> Default, profiles |-> [n \in Shipped |-> Fresh]]

\* ProfileStore::load
Loaded ==
    LET profiles == IF Parsed = {} THEN Defaults.profiles ELSE Stored
        wanted == IF conf \in Names THEN conf ELSE Default
    IN [active |-> IF wanted \in DOMAIN profiles THEN wanted ELSE Min(DOMAIN profiles),
        profiles |-> profiles]

Init ==
    /\ conf = Absent
    /\ file = [n \in Names |-> Absent]
    /\ config = Loaded
    /\ last = config
    /\ clean = TRUE
    /\ undeleted = {}
    /\ pc = "off"
    /\ todo = {}

\* While the daemon is not running, a file is put into the directory.
Drop(f) ==
    /\ pc = "off"
    /\ file' = [file EXCEPT ![f.stem] = [name |-> f.name, content |-> f.content]]
    /\ UNCHANGED <<conf, config, last, clean, undeleted, pc, todo>>

\* Daemon::start. One file that cannot be read, unlike one that cannot be
\* parsed, fails the whole load, and the daemon starts with AppConfig::default.
Boot ==
    /\ pc = "off"
    /\ \/ /\ config' = Loaded
          /\ clean' = TRUE
       \/ /\ "read" \in Faults /\ \E n \in Names : file[n] # Absent
          /\ config' = Defaults
          /\ clean' = FALSE
    /\ last' = config'
    /\ undeleted' = {}
    /\ pc' = "idle"
    /\ UNCHANGED <<files, todo>>

Crash ==
    /\ pc # "off"
    /\ pc' = "off"
    /\ todo' = {}
    /\ UNCHANGED <<files, config, last, clean, undeleted>>

-----------------------------------------------------------------------------
\* What the commands make of the configuration before they save it: nothing
\* (save_profile), another active profile, a changed profile, a copy of the
\* active one, or one profile less, never the last.
Changes ==
    {config}
    \cup {[config EXCEPT !.active = n] : n \in DOMAIN config.profiles}
    \cup {[config EXCEPT !.profiles[config.active] = c] : c \in Contents}
    \cup {[active |-> n,
           profiles |-> [m \in DOMAIN config.profiles \cup {n} |->
                            config.profiles[IF m = n THEN config.active ELSE m]]] :
             n \in Names \ DOMAIN config.profiles}
    \cup {LET left == DOMAIN config.profiles \ {n}
          IN [active |-> IF n = config.active THEN Min(left) ELSE config.active,
              profiles |-> [m \in left |-> config.profiles[m]]] :
             n \in {m \in DOMAIN config.profiles : Cardinality(DOMAIN config.profiles) > 1}}

Change ==
    /\ pc = "idle"
    /\ config' \in Changes
    /\ pc' = "conf"
    /\ UNCHANGED <<files, last, clean, undeleted, todo>>

(* ProfileStore::save, one system call per step.                           *)

TruncateConf ==
    /\ pc = "conf"
    /\ conf' = Torn
    /\ pc' = "write conf"
    /\ UNCHANGED <<file, config, last, clean, undeleted, todo>>

\* Slip: the directory is emptied before the profiles are written.
WriteConfAndClear ==
    /\ pc = "write conf"
    /\ conf' = config.active
    /\ file' = [n \in Names |-> Absent]
    /\ pc' = "profile"
    /\ todo' = DOMAIN config.profiles
    /\ UNCHANGED <<config, last, clean, undeleted>>

WriteConf ==
    /\ pc = "write conf"
    /\ conf' = config.active
    /\ pc' = "profile"
    /\ todo' = DOMAIN config.profiles
    /\ UNCHANGED <<file, config, last, clean, undeleted>>

TruncateProfile ==
    /\ pc = "profile" /\ todo # {}
    /\ file' = [file EXCEPT ![Min(todo)] = Torn]
    /\ pc' = "write profile"
    /\ UNCHANGED <<conf, config, last, clean, undeleted, todo>>

WriteProfile ==
    /\ pc = "write profile"
    /\ LET n == Min(todo) IN
        /\ file' = [file EXCEPT ![n] = [name |-> n, content |-> config.profiles[n]]]
        /\ todo' = todo \ {n}
    /\ pc' = "profile"
    /\ UNCHANGED <<conf, config, last, clean, undeleted>>

\* A write that fails, before or after the file was truncated, ends the save.
WriteFailed ==
    /\ pc \in {"conf", "write conf", "profile", "write profile"}
    /\ pc = "profile" => todo # {}
    /\ "write" \in Faults
    /\ pc' = "idle"
    /\ clean' = FALSE
    /\ todo' = {}
    /\ UNCHANGED <<files, config, last, undeleted>>

\* Slip: only files of profiles that were loaded are removed.
ListStaleOfLast ==
    /\ pc = "profile" /\ todo = {}
    /\ todo' = DOMAIN last.profiles \ DOMAIN config.profiles
    /\ undeleted' = {}
    /\ pc' = "stale"
    /\ UNCHANGED <<files, config, last, clean>>

ListStale ==
    /\ pc = "profile" /\ todo = {}
    /\ todo' = {m \in Names : file[m] # Absent} \ DOMAIN config.profiles
    /\ undeleted' = {}
    /\ pc' = "stale"
    /\ UNCHANGED <<files, config, last, clean>>

\* In any order; a file that cannot be removed is left behind silently.
RemoveStale(m) ==
    /\ pc = "stale" /\ m \in todo
    /\ \/ /\ file' = [file EXCEPT ![m] = Absent]
          /\ UNCHANGED undeleted
       \/ /\ "remove" \in Faults
          /\ undeleted' = undeleted \cup {m}
          /\ UNCHANGED file
    /\ todo' = todo \ {m}
    /\ UNCHANGED <<conf, config, last, clean, pc>>

SaveDone ==
    /\ pc = "stale" /\ todo = {}
    /\ last' = config
    /\ clean' = TRUE
    /\ pc' = "idle"
    /\ UNCHANGED <<files, config, undeleted, todo>>

Next ==
    \/ \E f \in Foreign : Drop(f)
    \/ Boot \/ Crash \/ Change
    \/ TruncateConf \/ WriteConf
    \/ TruncateProfile \/ WriteProfile \/ WriteFailed
    \/ ListStale \/ SaveDone
    \/ \E m \in Names : RemoveStale(m)

Spec == Init /\ [][Next]_vars

-----------------------------------------------------------------------------
\* The profiles that files which could not be removed bring back.
Returning == {file[m].name : m \in undeleted \cap Parsed}

(* What a completed save wrote is what the next start loads: no deleted or  *)
(* renamed profile comes back, whatever crashes, torn files and files from  *)
(* elsewhere came before.  A file that could not be removed, which the save *)
(* does not report (profile.rs:221), brings back the profile it bears and   *)
(* changes no other.                                                        *)
SavedIsLoaded ==
    pc = "idle" /\ clean =>
        /\ Loaded.active = config.active
        /\ DOMAIN Loaded.profiles = DOMAIN config.profiles \cup Returning
        /\ \A n \in DOMAIN config.profiles \ Returning :
              Loaded.profiles[n] = config.profiles[n]

\* A profile nobody has changed is there again whenever no file is.
AsShipped(n) == n \in Shipped /\ last.profiles[n] = Fresh

(* A crash in the middle of a save costs one profile at most; every other   *)
(* one is loaded as it was before the save or as it was to be saved.  Those *)
(* that are as shipped do not count: the first save writes them one by one, *)
(* and the first file that is there hides those still missing.  (This needs *)
(* files from elsewhere to come after the profile they bear, one for each,  *)
(* and one in all where removing it may fail: another one shows through.)   *)
CrashCostsOneProfile ==
    pc # "off" /\ clean =>
        Cardinality({n \in (DOMAIN last.profiles \cap DOMAIN config.profiles) \ Returning :
            /\ ~AsShipped(n)
            /\ \/ n \notin DOMAIN Loaded.profiles
               \/ Loaded.profiles[n] \notin {last.profiles[n], config.profiles[n]}}) <= 1
=============================================================================
