------------------------- MODULE ProfileStoreProofs -------------------------
(***************************************************************************)
(* A completed save is what the next start loads, for any finite set of    *)
(* names and any contents, whatever files are put into the directory, and  *)
(* wherever saves fail or crashes cut them off.  A crash costs one profile *)
(* at most, unless copies put there by hand hide each other.               *)
(***************************************************************************)
EXTENDS ProfileStore, FiniteSetTheorems, WellFoundedInduction, TLAPS

-----------------------------------------------------------------------------
(* The least and the greatest of some names.                               *)

LEMMA MinIn ==
    ASSUME NEW set \in SUBSET Nat, set # {}
    PROVE  Min(set) \in set /\ \A x \in set : Min(set) <= x
<1> DEFINE less == OpToRel(<, Nat)
<1>1. \A x, y \in Nat : ~(<<y, x>> \in less) => x <= y
  BY DEF OpToRel
<1>2. IsWellFoundedOn(less, Nat)
  BY NatLessThanWellFounded, Zenon
<1> HIDE DEF less
<1>3. PICK x \in set : \A y \in set : ~(<<y, x>> \in less)
  BY <1>2, WFMin
<1>4. \A y \in set : x <= y
  BY <1>1, <1>3
<1> QED BY <1>4 DEF Min

\* No finite set is the smallest one without a greatest element.
LEMMA MaxIn ==
    ASSUME NEW set \in SUBSET Nat, set # {}, IsFiniteSet(set)
    PROVE  Max(set) \in set
<1> DEFINE HasMax(part) == \E x \in part : \A y \in part : x >= y
           Bad == {part \in SUBSET set : part # {} /\ ~HasMax(part)}
           Sizes == {Cardinality(part) : part \in Bad}
<1>1. \A part \in Bad : IsFiniteSet(part) /\ Cardinality(part) \in Nat
  BY FS_Subset, FS_CardinalityType
<1>2. ASSUME Bad # {} PROVE FALSE
  <2>1. Sizes \in SUBSET Nat /\ Sizes # {}
    BY <1>1, <1>2
  <2>2. PICK part \in Bad : Cardinality(part) = Min(Sizes)
    BY <2>1, MinIn
  <2>3. \A other \in Bad : Cardinality(part) <= Cardinality(other)
    <3>1. \A size \in Sizes : Min(Sizes) <= size
      BY <2>1, MinIn
    <3> QED BY <2>2, <3>1
  <2>4. PICK e \in part : TRUE
    BY <2>2
  <2> DEFINE rest == part \ {e}
  <2>5. IsFiniteSet(rest) /\ Cardinality(rest) = Cardinality(part) - 1
    BY <1>1, <2>4, FS_RemoveElement
  <2>6. rest \notin Bad
    <3>1. Cardinality(part) \in Nat
      BY <1>1
    <3>2. ~(Cardinality(part) <= Cardinality(rest))
      BY <2>5, <3>1
    <3> QED BY <2>3, <3>2
  <2>7. part \subseteq Nat /\ ~HasMax(part)
    BY <2>2
  <2>8. CASE rest = {}
    BY <2>4, <2>7, <2>8
  <2>9. CASE rest # {}
    <3>1. HasMax(rest)
      BY <2>6, <2>9
    <3>2. PICK m \in rest : \A y \in rest : m >= y
      BY <3>1
    <3>3. \A y \in part : (IF m >= e THEN m ELSE e) >= y
      BY <2>4, <2>7, <3>2
    <3> QED BY <2>4, <2>7, <3>2, <3>3
  <2> QED BY <2>8, <2>9
<1>3. HasMax(set)
  BY <1>2
<1> QED BY <1>3 DEF Max

LEMMA MaxOne == \A n \in Names : Max({n}) = n
<1> TAKE n \in Names
<1>1. n \in Nat
  BY StoreAssumption
<1> QED BY <1>1 DEF Max

-----------------------------------------------------------------------------
(* The inductive invariant.                                                *)

ProfileFiles == [name : Names, content : Contents]

Configs == {c \in [active : Names, profiles : UNION {[names -> Contents] : names \in SUBSET Names}] :
              c.active \in DOMAIN c.profiles}

FilesTyped == conf \in Names \cup {Absent, Torn} /\ file \in [Names -> ProfileFiles \cup {Absent, Torn}]

StoreTyped ==
    /\ FilesTyped
    /\ config \in Configs
    /\ undeleted \subseteq Names /\ todo \subseteq Names

Kept == DOMAIN config.profiles

Written(names) ==
    /\ conf = config.active
    /\ \A n \in names : file[n] = [name |-> n, content |-> config.profiles[n]]

\* How far a save has come.
SaveProgress ==
    /\ pc \in {"profile", "write profile"} => todo \subseteq Kept /\ Written(Kept \ todo)
    /\ pc = "write profile" => todo # {}
    /\ pc = "stale" =>
          /\ Written(Kept)
          /\ todo \cap Kept = {}
          /\ \A m \in Names \ Kept : file[m] = Absent \/ m \in todo \cup undeleted

StoreInv == StoreTyped /\ SaveProgress /\ SavedIsLoaded

-----------------------------------------------------------------------------
(* What is loaded is a configuration.                                      *)

LEMMA DefaultsTyped == Defaults \in Configs
BY StoreAssumption DEF Defaults, Configs

LEMMA StoredTyped ==
    ASSUME FilesTyped
    PROVE  \E names \in SUBSET Names : Stored \in [names -> Contents]
                                       /\ (Parsed # {} => names # {})
<1> DEFINE names == {file[m].name : m \in Parsed}
<1>1. \A m \in Parsed : m \in Names /\ file[m] \in ProfileFiles
  BY DEF FilesTyped, Parsed
<1>2. names \in SUBSET Names /\ (Parsed # {} => names # {})
  BY <1>1 DEF ProfileFiles
<1>3. ASSUME NEW n \in names PROVE file[Max(FilesOf(n))].content \in Contents
  <2>1. FilesOf(n) # {} /\ FilesOf(n) \subseteq Parsed
    BY <1>3 DEF FilesOf
  <2>2. FilesOf(n) \in SUBSET Nat /\ IsFiniteSet(FilesOf(n))
    <3>1. FilesOf(n) \subseteq Names
      BY <1>1, <2>1
    <3> QED BY <3>1, StoreAssumption, FS_Subset
  <2>3. Max(FilesOf(n)) \in Parsed
    BY <2>1, <2>2, MaxIn
  <2> QED BY <1>1, <2>3 DEF ProfileFiles
<1>4. Stored \in [names -> Contents]
  BY <1>3 DEF Stored
<1> QED BY <1>2, <1>4

LEMMA LoadedTyped == ASSUME FilesTyped PROVE Loaded \in Configs
<1> DEFINE profiles == IF Parsed = {} THEN Defaults.profiles ELSE Stored
           wanted == IF conf \in Names THEN conf ELSE Default
           active == IF wanted \in DOMAIN profiles THEN wanted ELSE Min(DOMAIN profiles)
<1>1. PICK names \in SUBSET Names : profiles \in [names -> Contents] /\ names # {}
  <2>1. CASE Parsed = {}
    BY <2>1, StoreAssumption DEF Defaults
  <2>2. CASE Parsed # {}
    BY <2>2, StoredTyped
  <2> QED BY <2>1, <2>2
<1>2. Loaded = [active |-> active, profiles |-> profiles]
  BY DEF Loaded
<1> HIDE DEF profiles
<1>3. active \in names
  BY <1>1, MinIn, StoreAssumption
<1> HIDE DEF active
<1> QED BY <1>1, <1>2, <1>3 DEF Configs

-----------------------------------------------------------------------------
(* The commands keep the configuration one.                                *)

LEMMA ChangesTyped == ASSUME config \in Configs PROVE Changes \subseteq Configs
<1>1. PICK names \in SUBSET Names : config.profiles \in [names -> Contents]
  BY DEF Configs
<1>2. config.active \in names /\ names = Kept
      /\ config = [active |-> config.active, profiles |-> config.profiles]
  BY <1>1 DEF Configs, Kept
<1>3. \A a \in names : [config EXCEPT !.active = a] \in Configs
  <2>1. \A a \in names : [config EXCEPT !.active = a] = [active |-> a, profiles |-> config.profiles]
    BY <1>2
  <2> QED BY <1>1, <2>1 DEF Configs
<1>4. \A c \in Contents : [config EXCEPT !.profiles[config.active] = c] \in Configs
  <2> TAKE c \in Contents
  <2> DEFINE profiles == [config.profiles EXCEPT ![config.active] = c]
  <2>1. [config EXCEPT !.profiles[config.active] = c]
            = [active |-> config.active, profiles |-> profiles]
    BY <1>2
  <2>2. profiles \in [names -> Contents]
    BY <1>1
  <2> HIDE DEF profiles
  <2> QED BY <1>2, <2>1, <2>2 DEF Configs
<1>5. ASSUME NEW n \in Names \ names
      PROVE  [active |-> n, profiles |-> [m \in names \cup {n} |->
                config.profiles[IF m = n THEN config.active ELSE m]]] \in Configs
  <2> DEFINE profiles == [m \in names \cup {n} |->
                            config.profiles[IF m = n THEN config.active ELSE m]]
  <2>1. profiles \in [names \cup {n} -> Contents]
    BY <1>1, <1>2
  <2> HIDE DEF profiles
  <2>2. [active |-> n, profiles |-> profiles] \in Configs
    BY <2>1 DEF Configs
  <2> QED BY <2>2 DEF profiles
<1>6. ASSUME NEW n \in names, Cardinality(names) > 1
      PROVE  LET left == names \ {n}
             IN [active |-> IF n = config.active THEN Min(left) ELSE config.active,
                 profiles |-> [m \in left |-> config.profiles[m]]] \in Configs
  <2> DEFINE left == names \ {n}
             active == IF n = config.active THEN Min(left) ELSE config.active
             profiles == [m \in left |-> config.profiles[m]]
  <2>1. left # {}
    <3>1. ASSUME left = {} PROVE FALSE
      <4>1. names = {n}
        BY <3>1
      <4> QED BY <1>6, <4>1, FS_Singleton
    <3> QED BY <3>1
  <2>2. active \in left
    BY <1>2, <2>1, MinIn, StoreAssumption
  <2>3. profiles \in [left -> Contents]
    BY <1>1
  <2> HIDE DEF profiles, active
  <2>4. [active |-> active, profiles |-> profiles] \in Configs
    BY <2>2, <2>3 DEF Configs
  <2> QED BY <2>4 DEF active, profiles
<1>7. DOMAIN config.profiles = names
  BY <1>1
<1> SUFFICES ASSUME NEW c \in Changes PROVE c \in Configs
  OBVIOUS
<1>8. CASE c \in {[active |-> n,
                   profiles |-> [m \in names \cup {n} |->
                        config.profiles[IF m = n THEN config.active ELSE m]]] :
                     n \in Names \ names}
  BY <1>5, <1>8
<1>9. CASE c \in {LET left == names \ {n}
                  IN [active |-> IF n = config.active THEN Min(left) ELSE config.active,
                      profiles |-> [m \in left |-> config.profiles[m]]] :
                     n \in {m \in names : Cardinality(names) > 1}}
  BY <1>6, <1>9
<1> QED BY <1>3, <1>4, <1>7, <1>8, <1>9 DEF Changes

-----------------------------------------------------------------------------
(* What a completed save makes of the files.                               *)

LEMMA CompletedLoads ==
    ASSUME StoreTyped, Written(Kept),
           \A m \in Names \ Kept : file[m] = Absent \/ m \in undeleted
    PROVE  /\ Loaded.active = config.active
           /\ DOMAIN Loaded.profiles = Kept \cup Returning
           /\ \A n \in Kept \ Returning : Loaded.profiles[n] = config.profiles[n]
<1>1. PICK names \in SUBSET Names : config.profiles \in [names -> Contents]
  BY DEF StoreTyped, Configs
<1>2. Kept = names /\ config.active \in names
  BY <1>1 DEF StoreTyped, Configs, Kept
<1>3. \A n \in names : /\ file[n] = [name |-> n, content |-> config.profiles[n]]
                       /\ file[n] \in ProfileFiles /\ n \in Parsed
  <2> TAKE n \in names
  <2>1. file[n] = [name |-> n, content |-> config.profiles[n]]
    BY <1>2 DEF Written
  <2>2. file[n] \in ProfileFiles
    BY <1>1, <2>1 DEF ProfileFiles
  <2> QED BY <2>1, <2>2, StoreAssumption DEF Parsed, ProfileFiles
<1>4. Parsed = names \cup (undeleted \cap Parsed)
  <2>1. \A m \in Parsed : m \in names \/ m \in undeleted
    BY <1>2 DEF Parsed
  <2> QED BY <1>3, <2>1
<1>5. \A n \in names : file[n].name = n /\ file[n].content = config.profiles[n]
  <2> TAKE n \in names
  <2>1. file[n] = [name |-> n, content |-> config.profiles[n]]
    BY <1>3
  <2> QED BY <2>1
<1>6. {file[m].name : m \in Parsed} = names \cup Returning
  BY <1>4, <1>5 DEF Returning
<1>7. Loaded.profiles = Stored
  BY <1>2, <1>3 DEF Loaded
<1>8. DOMAIN Stored = names \cup Returning
  BY <1>6 DEF Stored
<1>9. Loaded.active = config.active
  <2>1. conf = config.active /\ conf \in Names /\ conf \in DOMAIN Stored
    BY <1>1, <1>2, <1>8 DEF Written
  <2>2. Parsed # {}
    BY <1>2, <1>3
  <2> QED BY <2>1, <2>2 DEF Loaded
<1>10. ASSUME NEW n \in names \ Returning PROVE Stored[n] = config.profiles[n]
  <2>1. FilesOf(n) = {n}
    <3>1. \A m \in Parsed : file[m].name = n => m = n
      BY <1>4, <1>5, <1>10 DEF Returning
    <3> QED BY <1>3, <1>5, <3>1 DEF FilesOf
  <2>2. Max({n}) = n
    BY <1>1, MaxOne
  <2>3. Stored[n] = file[Max(FilesOf(n))].content
    BY <1>6 DEF Stored
  <2> QED BY <1>5, <2>1, <2>2, <2>3
<1> QED BY <1>2, <1>7, <1>8, <1>9, <1>10

-----------------------------------------------------------------------------
(* The steps.                                                              *)

LEMMA StoreInit == Init => StoreInv
<1> SUFFICES ASSUME Init PROVE StoreInv
  OBVIOUS
<1>1. FilesTyped
  BY DEF Init, FilesTyped
<1>2. config \in Configs
  BY <1>1, LoadedTyped DEF Init
<1> QED BY <1>1, <1>2 DEF Init, StoreInv, StoreTyped, SaveProgress, SavedIsLoaded

LEMMA BootStep == ASSUME StoreInv, Boot PROVE StoreInv'
<1>1. StoreTyped'
  BY LoadedTyped, DefaultsTyped DEF Boot, files, StoreInv, StoreTyped, FilesTyped
<1>2. SaveProgress'
  BY DEF Boot, SaveProgress
<1>3. SavedIsLoaded'
  <2>1. Loaded' = Loaded
    BY DEF Boot, files, Loaded, Stored, FilesOf, Parsed
  <2>2. clean' => config' = Loaded'
    BY <2>1 DEF Boot
  <2>3. Returning' = {}
    BY DEF Boot, Returning
  <2> HIDE DEF Loaded
  <2> QED BY <2>2, <2>3 DEF SavedIsLoaded
<1> QED BY <1>1, <1>2, <1>3 DEF StoreInv

\* Steps of a save, other than the last one, and the end of the daemon.
LEMMA QuietStep ==
    ASSUME StoreTyped', SaveProgress', pc' = "idle" => ~clean'
    PROVE  StoreInv'
BY DEF StoreInv, SavedIsLoaded

LEMMA SaveStep ==
    ASSUME StoreInv,
           \/ TruncateConf \/ WriteConf \/ TruncateProfile \/ WriteProfile \/ WriteFailed
           \/ ListStale \/ \E m \in Names : RemoveStale(m)
    PROVE  StoreInv'
<1>0. StoreTyped /\ SaveProgress
  BY DEF StoreInv
<1>1. CASE TruncateConf \/ WriteFailed
  BY <1>0, <1>1, QuietStep
     DEF TruncateConf, WriteFailed, files, StoreTyped, FilesTyped, SaveProgress
<1>2. CASE WriteConf
  <2>1. config.active \in Names /\ Kept \subseteq Names
    BY <1>0 DEF StoreTyped, Configs, Kept
  <2> QED BY <1>0, <1>2, <2>1, QuietStep
          DEF WriteConf, StoreTyped, FilesTyped, SaveProgress, Kept, Written
<1>3. CASE TruncateProfile
  <2> DEFINE n == Min(todo)
  <2>1. n \in todo /\ todo \subseteq Kept /\ todo \subseteq Names
    BY <1>0, <1>3, MinIn, StoreAssumption DEF TruncateProfile, StoreTyped, SaveProgress
  <2>2. file' = [file EXCEPT ![n] = Torn] /\ UNCHANGED <<conf, config, undeleted, todo>>
        /\ pc' = "write profile" /\ pc = "profile"
    BY <1>3 DEF TruncateProfile
  <2> HIDE DEF n
  <2>3. StoreTyped'
    BY <1>0, <2>1, <2>2 DEF StoreTyped, FilesTyped
  <2>4. Kept' = Kept /\ Kept \subseteq Names /\ Written(Kept \ todo)
    BY <1>0, <2>2 DEF SaveProgress, Kept, StoreTyped, Configs
  <2>5. \A m \in Names : m # n => file'[m] = file[m]
    BY <1>0, <2>2 DEF StoreTyped, FilesTyped
  <2>6. Written(Kept \ todo)'
    BY <2>1, <2>2, <2>4, <2>5 DEF Written
  <2>7. SaveProgress'
    BY <2>1, <2>2, <2>4, <2>6 DEF SaveProgress
  <2> QED BY <2>2, <2>3, <2>7, QuietStep
<1>4. CASE WriteProfile
  <2> DEFINE n == Min(todo)
             entry == [name |-> n, content |-> config.profiles[n]]
  <2>1. n \in todo /\ todo \subseteq Kept /\ todo \subseteq Names
    BY <1>0, <1>4, MinIn, StoreAssumption DEF WriteProfile, StoreTyped, SaveProgress
  <2>2. file' = [file EXCEPT ![n] = entry] /\ UNCHANGED <<conf, config, undeleted>>
        /\ todo' = todo \ {n} /\ pc' = "profile" /\ pc = "write profile"
    BY <1>4 DEF WriteProfile
  <2>3. entry \in ProfileFiles
    BY <1>0, <2>1 DEF StoreTyped, Configs, Kept, ProfileFiles
  <2> HIDE DEF n
  <2>4. entry = [name |-> n, content |-> config.profiles[n]]
    OBVIOUS
  <2> HIDE DEF entry
  <2>5. StoreTyped'
    BY <1>0, <2>1, <2>2, <2>3 DEF StoreTyped, FilesTyped
  <2>6. Kept' = Kept
    BY <2>2 DEF Kept
  <2>7. Written(Kept \ todo)'
    <3>1. conf' = config'.active
      BY <1>0, <2>2 DEF SaveProgress, Written
    <3>2. ASSUME NEW m \in Kept \ todo'
          PROVE  file'[m] = [name |-> m, content |-> config.profiles[m]]
      <4>1. m \in Names
        BY <1>0 DEF StoreTyped, Configs, Kept
      <4>2. CASE m = n
        BY <1>0, <2>2, <2>4, <4>1, <4>2 DEF StoreTyped, FilesTyped
      <4>3. CASE m # n
        BY <1>0, <2>2, <3>2, <4>1, <4>3 DEF StoreTyped, FilesTyped, SaveProgress, Written
      <4> QED BY <4>2, <4>3
    <3> QED BY <2>2, <2>6, <3>1, <3>2 DEF Written
  <2>8. SaveProgress'
    BY <2>1, <2>2, <2>6, <2>7 DEF SaveProgress
  <2> QED BY <2>2, <2>5, <2>8, QuietStep
<1>5. CASE ListStale
  <2>1. UNCHANGED <<conf, file, config>> /\ Kept' = Kept /\ undeleted' = {} /\ pc' = "stale"
        /\ todo' = {m \in Names : file[m] # Absent} \ Kept
    BY <1>5 DEF ListStale, files, Kept
  <2>2. Written(Kept)
    BY <1>0, <1>5 DEF ListStale, SaveProgress, Written
  <2>3. StoreTyped'
    BY <1>0, <2>1 DEF StoreTyped, FilesTyped
  <2>4. SaveProgress'
    BY <2>1, <2>2 DEF SaveProgress, Written
  <2> QED BY <2>1, <2>3, <2>4, QuietStep
<1>6. ASSUME NEW m \in Names, RemoveStale(m) PROVE StoreInv'
  <2>1. /\ m \in todo /\ todo' = todo \ {m} /\ pc = "stale" /\ pc' = "stale"
        /\ UNCHANGED <<conf, config>> /\ Kept' = Kept
        /\ \/ file' = [file EXCEPT ![m] = Absent] /\ undeleted' = undeleted
           \/ file' = file /\ undeleted' = undeleted \cup {m}
    BY <1>6 DEF RemoveStale, Kept
  <2>2. StoreTyped'
    BY <1>0, <2>1 DEF StoreTyped, FilesTyped
  <2>3. Written(Kept) /\ m \notin Kept /\ Kept \subseteq Names
    BY <1>0, <2>1 DEF SaveProgress, StoreTyped, Configs, Kept
  <2>4. \A n \in Names : n # m => file'[n] = file[n]
    BY <1>0, <2>1 DEF StoreTyped, FilesTyped
  <2>5. file'[m] = Absent \/ m \in undeleted'
    BY <1>0, <2>1 DEF StoreTyped, FilesTyped
  <2>6. Written(Kept)'
    BY <2>1, <2>3, <2>4 DEF Written
  <2>7. \A n \in Names \ Kept : file'[n] = Absent \/ n \in todo' \cup undeleted'
    BY <1>0, <2>1, <2>4, <2>5 DEF SaveProgress
  <2>8. SaveProgress'
    BY <1>0, <2>1, <2>6, <2>7 DEF SaveProgress
  <2> QED BY <2>1, <2>2, <2>8, QuietStep
<1> QED BY <1>1, <1>2, <1>3, <1>4, <1>5, <1>6

LEMMA DoneStep == ASSUME StoreInv, SaveDone PROVE StoreInv'
<1>1. UNCHANGED <<conf, file, config, undeleted, todo>> /\ pc' = "idle"
  BY DEF SaveDone, files
<1>2. StoreTyped'
  BY <1>1 DEF StoreInv, StoreTyped, FilesTyped
<1>3. SaveProgress'
  BY <1>1 DEF SaveProgress
<1>4. /\ Loaded.active = config.active
      /\ DOMAIN Loaded.profiles = Kept \cup Returning
      /\ \A n \in Kept \ Returning : Loaded.profiles[n] = config.profiles[n]
  BY CompletedLoads DEF SaveDone, StoreInv, SaveProgress
<1>5. Loaded' = Loaded /\ Returning' = Returning
  BY <1>1 DEF Loaded, Stored, FilesOf, Parsed, Returning
<1>6. SavedIsLoaded'
  BY <1>1, <1>4, <1>5 DEF SavedIsLoaded, Kept
<1> QED BY <1>2, <1>3, <1>6 DEF StoreInv

LEMMA StoreStep == StoreInv /\ [Next]_vars => StoreInv'
<1> SUFFICES ASSUME StoreInv, [Next]_vars PROVE StoreInv'
  OBVIOUS
<1>1. ASSUME NEW f \in Foreign, Drop(f) PROVE StoreInv'
  <2>1. [name |-> f.name, content |-> f.content] \in ProfileFiles /\ f.stem \in Names
    BY StoreAssumption DEF ProfileFiles
  <2> QED BY <1>1, <2>1, QuietStep DEF Drop, StoreInv, StoreTyped, FilesTyped, SaveProgress
<1>2. CASE Crash
  BY <1>2, QuietStep DEF Crash, files, StoreInv, StoreTyped, FilesTyped, SaveProgress
<1>3. CASE Change
  <2>1. config' \in Configs
    BY <1>3, ChangesTyped DEF Change, StoreInv, StoreTyped
  <2> QED
    BY <1>3, <2>1, QuietStep DEF Change, files, StoreInv, StoreTyped, FilesTyped, SaveProgress
<1>4. CASE UNCHANGED vars
  <2>1. Loaded' = Loaded /\ Returning' = Returning
    BY <1>4 DEF vars, files, Loaded, Stored, FilesOf, Parsed, Returning
  <2> QED
    BY <1>4, <2>1 DEF vars, files, StoreInv, StoreTyped, FilesTyped, SaveProgress, Written, Kept,
       SavedIsLoaded
<1> QED BY <1>1, <1>2, <1>3, <1>4, BootStep, SaveStep, DoneStep DEF Next

(* What a completed save wrote is what the next start loads, but for the    *)
(* profiles of files that could not be removed.                             *)
THEOREM SaveIsLoaded == Spec => []SavedIsLoaded
<1>1. StoreInv => SavedIsLoaded
  BY DEF StoreInv
<1> QED BY <1>1, StoreInit, StoreStep, PTL DEF Spec
-----------------------------------------------------------------------------
(* A crash in the middle of a save.                                        *)

Places == {"off", "idle", "conf", "write conf", "profile", "write profile", "stale"}

\* Files from elsewhere that bear another name than their own.
Copies == {f \in Foreign : f.stem # f.name}

\* They come after the profile they bear, one for each profile, and where
\* removing a file may fail, one in all.
CopiesAreLater ==
    /\ \A f \in Copies : f.name < f.stem
    /\ \A f, g \in Copies : f.name = g.name => f.stem = g.stem
    /\ "remove" \in Faults => \A f, g \in Copies : f.name = g.name

\* The profiles there were before the save.
Before == DOMAIN last.profiles

Counted == (Before \cap Kept) \ Returning

NamesKnown ==
    \A m \in Parsed : \/ file[m].name = m
                      \/ \E f \in Copies : f.stem = m /\ f.name = file[m].name

\* The profile is there as it was: from no file, in a copy or in its own file.
AtFile(n) ==
    \/ AsShipped(n)
    \/ \E m \in Parsed \ {n} : file[m].name = n
    \/ n \in Parsed /\ file[n] = [name |-> n, content |-> last.profiles[n]]

CopiesAgree(n) == \A m \in Parsed \ {n} : file[m].name = n => file[m].content = last.profiles[n]

\* Another copy, left behind by an earlier save, may have been loaded.
Excused(n) == pc = "stale" /\ "remove" \in Faults /\ \E f \in Copies : f.name = n

\* The save has yet to come to the profile's file.
Pending(n) ==
    \/ pc \in {"idle", "conf", "write conf"}
    \/ pc = "profile" /\ n \in todo
    \/ pc = "write profile" /\ n \in todo /\ n # Min(todo)

CrashInv ==
    /\ last \in Configs /\ pc \in Places /\ NamesKnown
    /\ undeleted # {} => "remove" \in Faults
    /\ pc = "stale" => undeleted \cap Kept = {}
    /\ pc # "off" /\ clean =>
        /\ pc = "idle" => last = config
        /\ undeleted \cap Before \cap Kept = {}
        /\ \A n \in Counted : /\ Pending(n) => AtFile(n)
                              /\ CopiesAgree(n) \/ Excused(n)

LEMMA MaxTwo == \A a, b \in Names : a < b => Max({a, b}) = b
<1> TAKE a, b \in Names
<1>1. a \in Nat /\ b \in Nat
  BY StoreAssumption
<1> QED BY <1>1 DEF Max

\* A profile has one copy at most, which comes after its own file.
LEMMA OneCopy ==
    ASSUME CopiesAreLater, NamesKnown,
           NEW n, NEW m \in Parsed \ {n}, file[m].name = n
    PROVE  n < m /\ \A i \in Parsed \ {n} : file[i].name = n => i = m
<1>1. PICK f \in Copies : f.stem = m /\ f.name = n
  BY DEF NamesKnown
<1>2. ASSUME NEW i \in Parsed \ {n}, file[i].name = n PROVE i = m
  <2>1. PICK g \in Copies : g.stem = i /\ g.name = n
    BY <1>2 DEF NamesKnown
  <2> QED BY <1>1, <2>1 DEF CopiesAreLater
<1> QED BY <1>1, <1>2 DEF CopiesAreLater

\* The copy is what is loaded, or else the profile's own file.
LEMMA LoadsCopy ==
    ASSUME CopiesAreLater, NamesKnown,
           NEW n \in Names, NEW m \in Parsed \ {n}, file[m].name = n
    PROVE  n \in DOMAIN Loaded.profiles /\ Loaded.profiles[n] = file[m].content
<1>1. n < m /\ m \in Names /\ \A i \in Parsed : file[i].name = n => i \in {n, m}
  BY OneCopy DEF Parsed
<1>2. Max(FilesOf(n)) = m
  <2>1. FilesOf(n) = {m} \/ FilesOf(n) = {n, m}
    BY <1>1 DEF FilesOf
  <2> QED BY <1>1, <2>1, MaxOne, MaxTwo
<1>3. n \in {file[i].name : i \in Parsed} /\ Parsed # {}
  OBVIOUS
<1>4. n \in DOMAIN Stored /\ Stored[n] = file[m].content
  BY <1>2, <1>3 DEF Stored
<1> QED BY <1>3, <1>4 DEF Loaded

LEMMA LoadsOwn ==
    ASSUME NEW n \in Parsed, file[n].name = n, ~ \E m \in Parsed \ {n} : file[m].name = n
    PROVE  n \in DOMAIN Loaded.profiles /\ Loaded.profiles[n] = file[n].content
<1>1. FilesOf(n) = {n} /\ n \in Names
  BY DEF FilesOf, Parsed
<1>2. Max(FilesOf(n)) = n
  BY <1>1, MaxOne
<1>3. n \in {file[i].name : i \in Parsed} /\ Parsed # {}
  OBVIOUS
<1>4. n \in DOMAIN Stored /\ Stored[n] = file[n].content
  BY <1>2, <1>3 DEF Stored
<1> QED BY <1>3, <1>4 DEF Loaded

\* All profiles but the one that is being written, or that another copy hides,
\* are loaded.
LEMMA OneIsTorn ==
    ASSUME CopiesAreLater, StoreInv, CrashInv, pc # "off", clean,
           NEW n \in Counted, ~AsShipped(n), ~Excused(n),
           pc = "write profile" => n # Min(todo)
    PROVE  /\ n \in DOMAIN Loaded.profiles
           /\ Loaded.profiles[n] \in {last.profiles[n], config.profiles[n]}
<1>1. /\ n \in Names /\ config.profiles[n] \in Contents
      /\ n \in Kept /\ pc \in Places /\ last \in Configs /\ n \in Before
  <2>1. n \in Before /\ n \in Kept /\ config \in Configs
    BY DEF Counted, StoreInv, StoreTyped
  <2>2. n \in Names /\ config.profiles[n] \in Contents
    BY <2>1 DEF Configs, Kept
  <2> QED BY <2>1, <2>2 DEF CrashInv
<1>2. CopiesAgree(n) /\ NamesKnown /\ (Pending(n) => AtFile(n))
  BY DEF CrashInv
<1>3. CASE \E m \in Parsed \ {n} : file[m].name = n
  BY <1>1, <1>2, <1>3, LoadsCopy DEF CopiesAgree
<1>4. CASE ~ \E m \in Parsed \ {n} : file[m].name = n
  <2>1. \E c \in {last.profiles[n], config.profiles[n]} : file[n] = [name |-> n, content |-> c]
    <3>1. CASE Pending(n)
      BY <1>2, <1>4, <3>1 DEF AtFile
    <3>2. CASE ~Pending(n)
      BY <1>1, <3>2 DEF Pending, Places, StoreInv, SaveProgress, Written
    <3> QED BY <3>1, <3>2
  <2>2. PICK c \in {last.profiles[n], config.profiles[n]} : file[n] = [name |-> n, content |-> c]
    BY <2>1
  <2> DEFINE entry == [name |-> n, content |-> c]
  <2>3. last.profiles[n] \in Contents
    BY <1>1 DEF Configs, Before
  <2>4. entry \in ProfileFiles /\ entry.name = n /\ entry.content = c
    BY <1>1, <2>3 DEF ProfileFiles
  <2>5. file[n] = entry
    BY <2>2
  <2> HIDE DEF entry
  <2>6. n \in Parsed
    BY <1>1, <2>4, <2>5, StoreAssumption DEF Parsed, ProfileFiles
  <2> QED BY <1>4, <2>4, <2>5, <2>6, LoadsOwn
<1> QED BY <1>3, <1>4

LEMMA CrashInvBounds == CopiesAreLater /\ StoreInv /\ CrashInv => CrashCostsOneProfile
<1> SUFFICES ASSUME CopiesAreLater, StoreInv, CrashInv, pc # "off", clean
             PROVE  Cardinality({n \in (DOMAIN last.profiles \cap DOMAIN config.profiles) \ Returning :
                        /\ ~AsShipped(n)
                        /\ \/ n \notin DOMAIN Loaded.profiles
                           \/ Loaded.profiles[n] \notin {last.profiles[n], config.profiles[n]}}) <= 1
  BY DEF CrashCostsOneProfile
<1> DEFINE lost == {n \in (DOMAIN last.profiles \cap DOMAIN config.profiles) \ Returning :
                        /\ ~AsShipped(n)
                        /\ \/ n \notin DOMAIN Loaded.profiles
                           \/ Loaded.profiles[n] \notin {last.profiles[n], config.profiles[n]}}
<1>1. \A n \in lost : Excused(n) \/ (pc = "write profile" /\ n = Min(todo))
  BY OneIsTorn DEF Before, Kept, Counted
<1> HIDE DEF lost
<1>2. \E one : lost \subseteq {one}
  <2>1. CASE pc = "stale"
    <3>1. \A n, o \in lost : n = o
      BY <1>1, <2>1, Zenon DEF Excused, CopiesAreLater
    <3>2. CASE lost = {}
      BY <3>2
    <3>3. ASSUME NEW n \in lost PROVE lost \subseteq {n}
      BY <3>1
    <3> QED BY <3>2, <3>3
  <2>2. CASE pc # "stale"
    <3>1. lost \subseteq {Min(todo)}
      BY <1>1, <2>2 DEF Excused
    <3> QED BY <3>1
  <2> QED BY <2>1, <2>2
<1>3. PICK one : lost \subseteq {one}
  BY <1>2
<1>4. IsFiniteSet({one}) /\ Cardinality({one}) = 1
  BY FS_Singleton
<1>5. Cardinality(lost) <= 1
  <2>1. Cardinality(lost) <= Cardinality({one})
    BY <1>3, <1>4, FS_Subset
  <2> QED BY <1>4, <2>1
<1> QED BY <1>5 DEF lost

\* Steps that leave the files alone.
LEMMA SameFiles ==
    ASSUME CrashInv, UNCHANGED <<file, last, undeleted>>
    PROVE  /\ last' \in Configs /\ NamesKnown' /\ (undeleted' # {} => "remove" \in Faults)
           /\ Before' = Before /\ Returning' = Returning
           /\ \A n : (AtFile(n)' <=> AtFile(n)) /\ (CopiesAgree(n)' <=> CopiesAgree(n))
BY DEF CrashInv, NamesKnown, Parsed, Before, Returning, AtFile, CopiesAgree, AsShipped

LEMMA CrashBoot ==
    ASSUME CopiesAreLater, StoreInv, CrashInv, Boot
    PROVE  CrashInv'
<1>1. /\ UNCHANGED file /\ last' = config' /\ pc' = "idle" /\ undeleted' = {}
      /\ (clean' => last' = Loaded) /\ FilesTyped /\ NamesKnown
  BY DEF Boot, files, StoreInv, StoreTyped, CrashInv
<1>2. last' \in Configs
  BY <1>1, LoadedTyped, DefaultsTyped DEF Boot
<1>3. Parsed' = Parsed /\ Returning' = {} /\ NamesKnown'
  BY <1>1 DEF Parsed, Returning, NamesKnown
<1>4. ASSUME clean', NEW n \in Before' PROVE AtFile(n)' /\ CopiesAgree(n)'
  <2>1. last' = Loaded /\ n \in Names
    BY <1>1, <1>2, <1>4 DEF Configs, Before
  <2>2. CASE Parsed = {}
    <3>1. last'.profiles = [m \in Shipped |-> Fresh]
      BY <2>1, <2>2 DEF Loaded, Defaults
    <3> QED BY <1>3, <1>4, <2>2, <3>1 DEF Before, AtFile, CopiesAgree, AsShipped
  <2>3. CASE \E m \in Parsed \ {n} : file[m].name = n
    <3>1. \A m \in Parsed \ {n} : file[m].name = n => last'.profiles[n] = file[m].content
      BY <1>1, <2>1, LoadsCopy
    <3> QED BY <1>1, <1>3, <2>3, <3>1 DEF AtFile, CopiesAgree
  <2>4. CASE Parsed # {} /\ ~ \E m \in Parsed \ {n} : file[m].name = n
    <3>1. last'.profiles = Stored
      BY <2>1, <2>4 DEF Loaded
    <3>2. n \in Parsed /\ file[n].name = n
      BY <1>4, <2>4, <3>1 DEF Before, Stored
    <3>3. last'.profiles[n] = file[n].content
      BY <2>1, <2>4, <3>2, LoadsOwn
    <3>4. file[n] \in ProfileFiles
      BY <1>1, <3>2 DEF FilesTyped, Parsed
    <3>5. file[n] = [name |-> file[n].name, content |-> file[n].content]
      BY <3>4 DEF ProfileFiles
    <3> QED BY <1>1, <1>3, <2>4, <3>2, <3>3, <3>5 DEF AtFile, CopiesAgree
  <2> QED BY <2>2, <2>3, <2>4
<1> QED BY <1>1, <1>2, <1>3, <1>4 DEF CrashInv, Places, Counted

\* The least of the files yet to write is truncated, or written.
LEMMA CrashWrites ==
    ASSUME CopiesAreLater, StoreInv, CrashInv, TruncateProfile \/ WriteProfile
    PROVE  CrashInv'
<1> DEFINE first == Min(todo)
           entry == [name |-> first, content |-> config.profiles[first]]
<1>0. FilesTyped /\ config \in Configs /\ todo \subseteq Names /\ last \in Configs /\ NamesKnown
  BY DEF CrashInv, StoreInv, StoreTyped
<1>1. /\ first \in todo /\ first \in Names /\ first \in Kept
      /\ \A n \in todo : first <= n
  BY <1>0, MinIn, StoreAssumption DEF TruncateProfile, WriteProfile, StoreInv, SaveProgress
<1>2. entry \in ProfileFiles /\ entry.name = first
  BY <1>0, <1>1 DEF Configs, Kept, ProfileFiles
<1>3. /\ UNCHANGED <<config, last, clean, undeleted>>
      /\ \/ /\ pc = "profile" /\ pc' = "write profile"
            /\ file' = [file EXCEPT ![first] = Torn] /\ todo' = todo
         \/ /\ pc = "write profile" /\ pc' = "profile"
            /\ file' = [file EXCEPT ![first] = entry] /\ todo' = todo \ {first}
  BY DEF TruncateProfile, WriteProfile
<1>4. first = Min(todo)
  OBVIOUS
<1> HIDE DEF first, entry
<1>5. \A m \in Names : m # first => file'[m] = file[m]
  BY <1>0, <1>3 DEF FilesTyped
<1>6. file'[first] \in {Torn, entry}
  BY <1>0, <1>1, <1>3 DEF FilesTyped
<1>7. \A m \in Names : m # first => (m \in Parsed' <=> m \in Parsed)
  BY <1>5 DEF Parsed
<1>8. first \in Parsed' => file'[first].name = first
  BY <1>2, <1>6 DEF Parsed
<1>9. NamesKnown'
  <2> SUFFICES ASSUME NEW m \in Parsed'
               PROVE  file'[m].name = m \/ \E f \in Copies : f.stem = m /\ f.name = file'[m].name
    BY DEF NamesKnown
  <2>1. m \in Names
    BY DEF Parsed
  <2> QED BY <1>0, <1>5, <1>7, <1>8, <2>1 DEF NamesKnown
<1>10. ASSUME clean, NEW n \in Counted'
       PROVE  (Pending(n)' => AtFile(n)') /\ CopiesAgree(n)'
  <2>1. /\ n \in Before /\ n \in Kept /\ n \in Names
        /\ undeleted \cap Before \cap Kept = {} /\ pc # "stale" /\ pc # "off"
    <3>1. n \in Before /\ n \in Kept
      BY <1>3, <1>10 DEF Counted, Before, Kept
    <3>2. n \in Names
      BY <1>0, <3>1 DEF Kept, Configs
    <3>3. pc # "stale" /\ pc # "off"
      BY <1>3
    <3>4. undeleted \cap Before \cap Kept = {}
      BY <1>10, <3>3 DEF CrashInv
    <3> QED BY <3>1, <3>2, <3>3, <3>4
  <2>2. \A m \in Parsed' \ {n} : file'[m].name = n =>
            m # first /\ m \in Parsed /\ file'[m] = file[m]
    <3> SUFFICES ASSUME NEW m \in Parsed' \ {n}, file'[m].name = n
                 PROVE  m # first /\ m \in Parsed /\ file'[m] = file[m]
      OBVIOUS
    <3>1. m \in Names
      BY DEF Parsed
    <3> QED BY <1>5, <1>7, <1>8, <3>1
  <2>3. CASE n \in Returning
    \* Only the file that is written can have brought the profile back.
    <3>1. PICK m \in undeleted \cap Parsed : file[m].name = n
      BY <2>3 DEF Returning
    <3>2. m = first
      <4>1. m \in Names /\ n \notin Returning'
        BY <1>10 DEF Parsed, Counted
      <4>2. ASSUME m # first PROVE m \in undeleted' \cap Parsed' /\ file'[m].name = n
        BY <1>3, <1>5, <1>7, <3>1, <4>1, <4>2
      <4> QED BY <4>1, <4>2 DEF Returning
    <3>3. n # first
      BY <1>1, <2>1, <3>1, <3>2
    <3>4. n < first /\ \A i \in Parsed \ {n} : file[i].name = n => i = first
      BY <1>0, <3>1, <3>2, <3>3, OneCopy
    <3>5. n \notin todo
      BY <1>0, <1>1, <2>1, <3>4, StoreAssumption
    <3>6. ~Pending(n)'
      BY <1>3, <3>5 DEF Pending
    <3>7. CopiesAgree(n)'
      BY <2>2, <3>4 DEF CopiesAgree
    <3> QED BY <3>6, <3>7
  <2>4. CASE n \notin Returning
    <3>1. n \in Counted
      BY <2>1, <2>4 DEF Counted
    <3>2. (Pending(n) => AtFile(n)) /\ CopiesAgree(n)
      BY <1>10, <2>1, <3>1 DEF CrashInv, Excused
    <3>3. CopiesAgree(n)'
      BY <1>3, <2>2, <3>2 DEF CopiesAgree
    <3>4. ASSUME Pending(n)' PROVE AtFile(n)'
      <4>1. n \in todo /\ n # first /\ Pending(n)
        BY <1>3, <1>4, <3>4 DEF Pending
      <4>2. CASE AsShipped(n)
        BY <1>3, <4>2 DEF AtFile, AsShipped
      <4>3. ASSUME NEW m \in Parsed \ {n}, file[m].name = n PROVE AtFile(n)'
        <5>1. n < m /\ m \in Names
          BY <1>0, <4>3, OneCopy DEF Parsed
        <5>2. m # first
          BY <1>0, <1>1, <2>1, <4>1, <5>1, StoreAssumption
        <5> QED BY <1>5, <1>7, <4>3, <5>1, <5>2 DEF AtFile
      <4>4. CASE n \in Parsed /\ file[n] = [name |-> n, content |-> last.profiles[n]]
        BY <1>3, <1>5, <1>7, <2>1, <4>1, <4>4 DEF AtFile
      <4> QED BY <3>2, <4>1, <4>2, <4>3, <4>4 DEF AtFile
    <3> QED BY <3>3, <3>4
  <2> QED BY <2>3, <2>4
<1>11. pc' \in Places /\ pc' # "stale" /\ pc' # "idle" /\ Before' = Before /\ Kept' = Kept
       /\ pc # "off"
  BY <1>3 DEF Places, Before, Kept
<1>12. clean' => undeleted' \cap Before' \cap Kept' = {}
  BY <1>3, <1>11 DEF CrashInv
<1> QED BY <1>0, <1>3, <1>9, <1>10, <1>11, <1>12 DEF CrashInv

LEMMA CrashRemoves ==
    ASSUME CopiesAreLater, StoreInv, CrashInv, NEW m \in Names, RemoveStale(m)
    PROVE  CrashInv'
<1>0. /\ FilesTyped /\ last \in Configs /\ NamesKnown /\ pc = "stale" /\ pc' = "stale"
      /\ m \notin Kept /\ undeleted \cap Kept = {} /\ (undeleted # {} => "remove" \in Faults)
  BY DEF CrashInv, StoreInv, StoreTyped, SaveProgress, RemoveStale
<1>1. /\ UNCHANGED <<config, last, clean>>
      /\ \/ file' = [file EXCEPT ![m] = Absent] /\ undeleted' = undeleted
         \/ "remove" \in Faults /\ file' = file /\ undeleted' = undeleted \cup {m}
  BY DEF RemoveStale
<1>2. /\ \A i \in Parsed' : i \in Parsed /\ file'[i] = file[i]
      /\ \A i \in Parsed : i = m \/ (i \in Parsed' /\ file'[i] = file[i])
  BY <1>0, <1>1 DEF Parsed, FilesTyped
<1>3. NamesKnown' /\ Kept' = Kept /\ Before' = Before /\ undeleted \subseteq undeleted'
  BY <1>0, <1>1, <1>2 DEF NamesKnown, Kept, Before
<1>4. undeleted' \cap Kept' = {} /\ (undeleted' # {} => "remove" \in Faults)
  BY <1>0, <1>1, <1>3
<1>5. ASSUME clean', NEW n \in Counted' PROVE CopiesAgree(n)' \/ Excused(n)'
  <2>1. n \in Before /\ n \in Kept /\ n \notin Returning'
    BY <1>3, <1>5 DEF Counted
  <2>2. CASE n \in Returning
    \* The file that is removed had been left behind before.
    <3>1. PICK i \in undeleted \cap Parsed : file[i].name = n
      BY <2>2 DEF Returning
    <3>2. i # n
      BY <1>0, <2>1, <3>1
    <3>3. \E f \in Copies : f.name = n
      BY <1>0, <3>1, <3>2 DEF NamesKnown
    <3> QED BY <1>0, <3>1, <3>3 DEF Excused
  <2>3. CASE n \notin Returning
    <3>1. CopiesAgree(n) \/ Excused(n)
      BY <1>0, <1>1, <1>5, <2>1, <2>3 DEF Counted, CrashInv
    <3> QED BY <1>0, <1>1, <1>2, <3>1 DEF CopiesAgree, Excused
  <2> QED BY <2>2, <2>3
<1>6. \A n : ~Pending(n)'
  BY <1>0 DEF Pending
<1> QED BY <1>0, <1>1, <1>3, <1>4, <1>5, <1>6 DEF CrashInv, Places

LEMMA CrashInvStep ==
    ASSUME CopiesAreLater, StoreInv, CrashInv, [Next]_vars
    PROVE  CrashInv'
<1>0. NamesKnown /\ last \in Configs /\ config \in Configs /\ FilesTyped
  BY DEF CrashInv, StoreInv, StoreTyped
<1>1. ASSUME NEW f \in Foreign, Drop(f) PROVE CrashInv'
  <2> DEFINE entry == [name |-> f.name, content |-> f.content]
  <2>1. entry.name = f.name /\ f.stem \in Names
    BY StoreAssumption
  <2>2. /\ file' = [file EXCEPT ![f.stem] = entry] /\ pc' = "off"
        /\ UNCHANGED <<last, undeleted>>
    BY <1>1 DEF Drop
  <2> HIDE DEF entry
  <2>3. NamesKnown'
    <3> SUFFICES ASSUME NEW m \in Parsed'
                 PROVE  file'[m].name = m
                        \/ \E g \in Copies : g.stem = m /\ g.name = file'[m].name
      BY DEF NamesKnown
    <3>1. CASE m = f.stem
      BY <1>0, <2>1, <2>2, <3>1 DEF FilesTyped, Copies
    <3>2. CASE m # f.stem
      BY <1>0, <2>2, <3>2 DEF FilesTyped, Parsed, NamesKnown
    <3> QED BY <3>1, <3>2
  <2> QED BY <2>2, <2>3 DEF CrashInv, Places
<1>2. CASE Crash \/ WriteFailed
  BY <1>2, SameFiles DEF Crash, WriteFailed, files, CrashInv, Places
<1>3. CASE Change
  <2>1. /\ UNCHANGED <<file, last, clean, undeleted>> /\ pc = "idle" /\ pc' = "conf"
    BY <1>3 DEF Change, files
  <2>2. ASSUME clean', NEW n \in Counted' PROVE AtFile(n)' /\ CopiesAgree(n)'
    <3>1. last = config /\ n \in Counted
      BY <2>1, <2>2, SameFiles DEF CrashInv, Counted, Before, Kept
    <3>2. AtFile(n) /\ CopiesAgree(n)
      BY <2>1, <2>2, <3>1 DEF CrashInv, Pending, Excused
    <3> QED BY <2>1, <3>2, SameFiles
  <2>3. clean' => undeleted' \cap Before' = {}
    BY <2>1, SameFiles DEF CrashInv, Before, Kept
  <2> QED BY <2>1, <2>2, <2>3, SameFiles DEF CrashInv, Places
<1>4. CASE TruncateConf \/ WriteConf
  <2>1. /\ UNCHANGED <<file, config, last, clean, undeleted>>
        /\ pc \in {"conf", "write conf"} /\ pc' \in {"write conf", "profile"}
    BY <1>4 DEF TruncateConf, WriteConf
  <2>2. Kept' = Kept /\ Counted' = Counted
    BY <2>1, SameFiles DEF Counted, Kept
  <2>3. ASSUME clean', NEW n \in Counted' PROVE AtFile(n)' /\ CopiesAgree(n)'
    <3>1. AtFile(n) /\ CopiesAgree(n)
      BY <2>1, <2>2, <2>3 DEF CrashInv, Pending, Excused
    <3> QED BY <2>1, <3>1, SameFiles
  <2>4. clean' => undeleted' \cap Before' \cap Kept' = {}
    BY <2>1, <2>2, SameFiles DEF CrashInv
  <2> QED BY <2>1, <2>3, <2>4, SameFiles DEF CrashInv, Places
<1>5. CASE TruncateProfile \/ WriteProfile
  BY <1>5, CrashWrites
<1>6. CASE ListStale
  <2>1. /\ UNCHANGED <<file, config, last, clean>> /\ undeleted' = {}
        /\ pc = "profile" /\ pc' = "stale" /\ Parsed' = Parsed
    BY <1>6 DEF ListStale, files, Parsed
  <2>2. NamesKnown'
    BY <1>0, <2>1 DEF NamesKnown
  <2>3. ASSUME clean', NEW n \in Counted' PROVE CopiesAgree(n)' \/ Excused(n)'
    <3>1. CASE "remove" \in Faults
      <4>1. CASE \E f \in Copies : f.name = n
        BY <2>1, <3>1, <4>1 DEF Excused
      <4>2. CASE ~ \E f \in Copies : f.name = n
        BY <1>0, <2>1, <4>2 DEF NamesKnown, CopiesAgree
      <4> QED BY <4>1, <4>2
    <3>2. CASE "remove" \notin Faults
      <4>1. undeleted = {}
        BY <3>2 DEF CrashInv
      <4>2. n \in Counted
        BY <2>1, <2>3, <4>1 DEF Counted, Before, Kept, Returning
      <4>3. CopiesAgree(n)
        BY <2>1, <2>3, <4>2 DEF CrashInv, Excused
      <4> QED BY <2>1, <4>3 DEF CopiesAgree
    <3> QED BY <3>1, <3>2
  <2>4. \A n : ~Pending(n)'
    BY <2>1 DEF Pending
  <2> QED BY <1>0, <2>1, <2>2, <2>3, <2>4 DEF CrashInv, Places
<1>7. ASSUME NEW m \in Names, RemoveStale(m) PROVE CrashInv'
  BY <1>7, CrashRemoves
<1>8. CASE SaveDone
  <2>1. /\ UNCHANGED <<file, config, undeleted>> /\ last' = config /\ pc' = "idle"
        /\ pc = "stale" /\ todo = {} /\ Parsed' = Parsed
    BY <1>8 DEF SaveDone, files, Parsed
  <2>2. NamesKnown' /\ Before' = Kept /\ Kept' = Kept /\ Returning' = Returning
        /\ undeleted \cap Kept = {}
    BY <1>0, <2>1 DEF NamesKnown, Before, Kept, Returning, CrashInv
  <2>3. ASSUME NEW n \in Kept \ Returning PROVE AtFile(n)' /\ CopiesAgree(n)'
    <3> DEFINE entry == [name |-> n, content |-> config.profiles[n]]
    <3>1. file[n] = entry
      BY <2>1, <2>3 DEF StoreInv, SaveProgress, Written
    <3>2. n \in Names /\ entry \in ProfileFiles
      BY <1>0, <2>3 DEF Configs, Kept, ProfileFiles
    <3>3. AtFile(n)'
      <4>1. entry = [name |-> n, content |-> last'.profiles[n]]
        BY <2>1
      <4> HIDE DEF entry
      <4>2. n \in Parsed'
        BY <2>1, <3>1, <3>2, StoreAssumption DEF Parsed, ProfileFiles
      <4> QED BY <2>1, <3>1, <4>1, <4>2 DEF AtFile
    <3>4. \A m \in Parsed \ {n} : file[m].name # n
      <4> SUFFICES ASSUME NEW m \in Parsed \ {n}, file[m].name = n PROVE FALSE
        OBVIOUS
      <4>1. m \notin Kept
        <5>1. ASSUME m \in Kept PROVE file[m].name = m
          <6>1. file[m] = [name |-> m, content |-> config.profiles[m]]
            BY <2>1, <5>1 DEF StoreInv, SaveProgress, Written
          <6> QED BY <6>1
        <5> QED BY <5>1
      <4>2. m \in undeleted
        BY <2>1, <4>1 DEF StoreInv, SaveProgress, Parsed
      <4> QED BY <2>3, <4>2 DEF Returning
    <3> QED BY <2>1, <3>3, <3>4 DEF CopiesAgree
  <2>4. Counted' = Kept \ Returning /\ (undeleted' # {} => "remove" \in Faults)
    BY <2>1, <2>2 DEF Counted, CrashInv
  <2> QED BY <1>0, <2>1, <2>2, <2>3, <2>4 DEF CrashInv, Places
<1>9. CASE UNCHANGED vars
  <2>1. Kept' = Kept /\ Counted' = Counted
        /\ \A n : (Pending(n)' <=> Pending(n)) /\ (Excused(n)' <=> Excused(n))
    BY <1>9, SameFiles DEF vars, Kept, Counted, Pending, Excused
  <2> QED BY <1>9, <2>1, SameFiles DEF vars, CrashInv
<1>10. CASE Boot
  BY <1>10, CrashBoot
<1> QED
  BY <1>1, <1>2, <1>3, <1>4, <1>5, <1>6, <1>7, <1>8, <1>9, <1>10 DEF Next

(* A crash in the middle of a save costs one profile at most, as long as    *)
(* files from elsewhere come after the profile they bear, one for each, and *)
(* one in all where removing it may fail.                                   *)
THEOREM CrashIsCheap == ASSUME CopiesAreLater PROVE Spec => []CrashCostsOneProfile
<1>1. Init => CrashInv
  <2> SUFFICES ASSUME Init PROVE CrashInv
    OBVIOUS
  <2>1. Parsed = {}
    BY DEF Init, Parsed
  <2>2. last \in Configs
    BY StoreInit DEF Init, StoreInv, StoreTyped
  <2> QED BY <2>1, <2>2 DEF Init, CrashInv, NamesKnown, Places
<1>2. StoreInv /\ CrashInv /\ [Next]_vars => CrashInv'
  BY CrashInvStep
<1>3. StoreInv /\ CrashInv => CrashCostsOneProfile
  BY CrashInvBounds
<1> QED BY <1>1, <1>2, <1>3, StoreInit, StoreStep, PTL DEF Spec
=============================================================================
