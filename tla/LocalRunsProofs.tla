-------------------------- MODULE LocalRunsProofs --------------------------
(***************************************************************************)
(* Custody of the directories of local runs, for any number of runs that   *)
(* overlap and any number of kills.                                        *)
(*                                                                         *)
(* First those of local-evm.  Neither promise is inductive: what a run may *)
(* do to a directory hangs on what it read at earlier awaits, of a name    *)
(* that others may have changed since.  LeaseInv therefore says what the   *)
(* names on disk tell of their runs (NamesSound), what a run has made by   *)
(* where it stands (RunSound), and what a run knows of the entry under     *)
(* hand (EntrySound).  It knows only what no step takes back (Progress): a *)
(* run that is over stays over, one whose Anvil is settled starts no       *)
(* other, and a name that carries a claim is changed by its claimant alone *)
(* while that lives.                                                       *)
(*                                                                         *)
(* Then those of the Solana fixture.  That a validator has stopped is not  *)
(* seen from where its directory is; FixtureInv ties it to the guard       *)
(* beside the startup record (Guarded), the guard to where the runner      *)
(* stands (RunGuarded), and both to what a run has read of the directory   *)
(* under hand (Knows).                                                     *)
(***************************************************************************)
EXTENDS LocalRuns, TLAPS

Claiming == {"claim", "confirm", "delete", "erase", "remove"}
Scanning == {"read", "provisional", "leased"}
Creating == {"publish", "reserve", "promote"}
Holding  == {"prepare", "await", "running", "stopping", "remove-own"}
Awaits   == {"new", "scan", "over"} \cup Scanning \cup Claiming \cup Creating \cup Holding

Leases == {"none", "null", "registered"}

EntryNames ==
  [kind : {"gone", "initialize", "run", "reclaim", "delete"}, of : {"gone", "initialize", "run"},
   run : Runs \cup {Nobody}, inode : Directories \cup {NoDirectory}, by : Runs \cup {Nobody}]

Entries == [name : EntryNames, identity : Directories \cup {NoDirectory}, lease : Leases]

Supervisions == {"none", "started", "spawned", "registering", "registered",
                 "finishing", "failing", "exited", "failed"}

Anvils == {"none", "alive", "stopped"}

Typed ==
  /\ path \in [Directories -> EntryNames] /\ lease \in [Directories -> Leases]
  /\ at \in [Runs -> Awaits] /\ entry \in [Runs -> Entries]
  /\ todo \in [Runs -> SUBSET (EntryNames \ {Gone})]
  /\ supervisor \in [Runs -> Supervisions] /\ anvil \in [Runs -> Anvils]

\* A run is at its end when it claims its own directory; until it makes that one
\* it has only looked at what others left.
Ending(p)     == at[p] \in Claiming /\ entry[p].name.run = p
Reclaiming(p) ==
  at[p] \in {"new", "scan"} \cup Scanning \/ (at[p] \in Claiming /\ entry[p].name.run # p)

\* A run of which no Anvil is left and none can be started.
Settled(p) == anvil[p] # "alive" /\ supervisor[p] # "started" /\ (at[p] = "over" \/ Ending(p))

Unstarted(p) == supervisor[p] = "none" /\ anvil[p] = "none"

\* The names the two directories of a run may have, and what they say of the run.
NamesSound(r) ==
  /\ path[Initial(r)] # Gone => path[Initial(r)].run = r /\ path[Initial(r)].of \in {"initialize", "run"}
  /\ path[Reserved(r)] # Gone => path[Reserved(r)].run = r /\ path[Reserved(r)].of = "run"
  /\ path[Initial(r)] # Gone /\ path[Reserved(r)] # Gone => path[Initial(r)].of = "initialize"
  /\ \A d \in {Initial(r), Reserved(r)} :
       /\ path[d].by # Nobody => path[d].by \in Runs /\ at[path[d].by] # "new"
       /\ path[d].by \notin {Nobody, r} => at[r] = "over"
       /\ path[d].kind = "delete" => path[d].by # Nobody
  /\ path[Initial(r)].of = "initialize" => Unstarted(r)
  /\ path[Initial(r)].of = "run" /\ path[Initial(r)].kind # "delete" => lease[Initial(r)] # "none"
  /\ path[Initial(r)] = Gone \/ path[Initial(r)].kind = "delete" => Settled(r) \/ Reclaiming(r)
  /\ lease[Reserved(r)] = "none"
  /\ lease[Initial(r)] = "registered" => supervisor[r] \notin {"none", "started"}

\* What a run has made and started, by where it stands.
RunSound(r) ==
  /\ Reclaiming(r) => path[Initial(r)] = Gone /\ path[Reserved(r)] = Gone /\ Unstarted(r)
  /\ at[r] \in Creating =>
       /\ path[Initial(r)] = Name("initialize", r) /\ Unstarted(r)
       /\ at[r] # "publish" => lease[Initial(r)] # "none"
       /\ path[Reserved(r)] = IF at[r] = "promote" THEN Name("run", r) ELSE Gone
  /\ at[r] \in Holding => path[Initial(r)] = Name("run", r) /\ path[Reserved(r)] = Gone
  /\ at[r] = "prepare" => Unstarted(r)
  /\ at[r] = "remove-own" => supervisor[r] \in {"none", "exited"} /\ anvil[r] # "alive"
  /\ Ending(r) => Settled(r)

\* What p knows of the entry under hand, e, of the run r.
Looked(p, e, r) ==
  /\ r \in Runs /\ e.identity \in {Initial(r), Reserved(r)} /\ e.name # Gone
  /\ ~ Reclaiming(r) /\ (e.name.of = "run" => at[r] \notin {"publish", "reserve"})
  /\ \A d \in At(e.name) : d = e.identity \/ (e.name = Name("run", r) /\ e.identity = Reserved(r))
  /\ e.name.by \in {Nobody, p} \/ (e.name.by \in Runs /\ at[e.name.by] = "over")

Read(p, e, r) ==
  /\ e.name.of = "run" /\ e.name.by # p /\ e.name.kind # "delete" /\ r # p
  /\ at[p] = "provisional" => e.identity = Reserved(r)
  /\ at[p] = "leased" /\ e.lease # "null" => supervisor[r] \notin {"none", "started"}

Claims(p, e, r) ==
  /\ r = p \/ at[r] = "over"
  /\ e.identity = Initial(r) => Settled(r)
  /\ at[p] = "claim" => e.name.kind # "delete"
  /\ at[p] = "delete" => e.name.by = p \/ e.name.kind = "delete"
  /\ at[p] \in {"confirm", "erase", "remove"} => e.name.by = p
  /\ at[p] \in {"erase", "remove"} => e.name.kind = "delete"
  /\ e.name.by = p => path[e.identity] = e.name

EntrySound(p) ==
  /\ at[p] \in Scanning => Looked(p, entry[p], entry[p].name.run) /\ Read(p, entry[p], entry[p].name.run)
  /\ at[p] \in Claiming => Looked(p, entry[p], entry[p].name.run) /\ Claims(p, entry[p], entry[p].name.run)

LeaseSound == \A p \in Runs : NamesSound(p) /\ RunSound(p) /\ EntrySound(p)

LeaseInv == Typed /\ LeaseSound
----------------------------------------------------------------------------
(* Directories and names.                                                  *)

LEMMA DirectoryFacts ==
  /\ \A r \in Runs : Initial(r) \in Directories /\ Reserved(r) \in Directories
  /\ \A r \in Runs, s \in Runs : Initial(r) # Reserved(s)
  /\ \A r \in Runs, s \in Runs : Initial(r) = Initial(s) \/ Reserved(r) = Reserved(s) => r = s
  /\ \A d \in Directories : \E r \in Runs : d = Initial(r) \/ d = Reserved(r)
  BY DEF Directories, Initial, Reserved

LEMMA NameFacts ==
  ASSUME NEW kind, NEW r
  PROVE  /\ Name(kind, r).kind = kind /\ Name(kind, r).of = kind /\ Name(kind, r).run = r
         /\ Name(kind, r).inode = NoDirectory /\ Name(kind, r).by = Nobody
  BY DEF Name

LEMMA ClaimFacts ==
  ASSUME NEW kind, NEW name, NEW d, NEW p
  PROVE  /\ Claim(kind, name, d, p).kind = kind /\ Claim(kind, name, d, p).of = name.of
         /\ Claim(kind, name, d, p).run = name.run /\ Claim(kind, name, d, p).inode = d
         /\ Claim(kind, name, d, p).by = p
  BY DEF Claim

LEMMA GoneFacts ==
  Gone.kind = "gone" /\ Gone.of = "gone" /\ Gone.run = Nobody /\ Gone.by = Nobody
  BY DEF Gone, Name

LEMMA NamesTyped ==
  /\ Gone \in EntryNames /\ NoEntry \in Entries
  /\ \A r \in Runs : Name("initialize", r) \in EntryNames /\ Name("run", r) \in EntryNames
  /\ \A name \in EntryNames, d \in Directories \cup {NoDirectory}, p \in Runs :
       Claim("reclaim", name, d, p) \in EntryNames /\ Claim("delete", name, d, p) \in EntryNames
  BY DEF Gone, NoEntry, Name, Claim, EntryNames, Entries, Leases

LEMMA EntryParts ==
  /\ \A e \in Entries : e.name \in EntryNames /\ e.identity \in Directories \cup {NoDirectory}
                        /\ e.lease \in Leases
  /\ \A n \in EntryNames, d \in Directories \cup {NoDirectory}, l \in Leases :
       [name |-> n, identity |-> d, lease |-> l] \in Entries
  BY DEF Entries

----------------------------------------------------------------------------
(* The types.                                                              *)

LEMMA RecordsTyped ==
  ASSUME Typed, NEW p \in Runs
  PROVE  /\ entry[p] \in Entries /\ entry[p].name \in EntryNames
         /\ entry[p].identity \in Directories \cup {NoDirectory} /\ entry[p].lease \in Leases
         /\ \A n \in EntryNames : [entry EXCEPT ![p].name = n] \in [Runs -> Entries]
         /\ \A l \in Leases : [entry EXCEPT ![p].lease = l] \in [Runs -> Entries]
         /\ \A e \in Entries : [entry EXCEPT ![p] = e] \in [Runs -> Entries]
  <1>1. entry[p] \in Entries /\ entry \in [Runs -> Entries]
    BY DEF Typed
  <1>2. /\ \A n \in EntryNames : [entry[p] EXCEPT !.name = n] \in Entries
        /\ \A l \in Leases : [entry[p] EXCEPT !.lease = l] \in Entries
    BY <1>1 DEF Entries
  <1> QED BY <1>1, <1>2, EntryParts

LEMMA ReclaimTyped ==
  ASSUME Typed, NEW p \in Runs, Reclaim(p)
  PROVE  Typed'
  <1> USE RecordsTyped, NamesTyped
  <1>1. ASSUME NEW await \in Awaits, Goto(p, await)
        PROVE  at' \in [Runs -> Awaits]
    BY <1>1 DEF Goto, Typed
  <1>2. \A d \in Directories : path[d] \in EntryNames /\ lease[d] \in Leases
    BY DEF Typed
  <1>3. \A kind \in {"reclaim", "delete"}, next \in {"confirm", "erase"} :
          ClaimAs(kind, p, next) => Typed'
    <2>1. SUFFICES ASSUME NEW kind \in {"reclaim", "delete"}, NEW next \in {"confirm", "erase"},
                          ClaimAs(kind, p, next)
                   PROVE  Typed'
      OBVIOUS
    <2>2. next \in Awaits /\ "over" \in Awaits /\ "scan" \in Awaits
      BY DEF Awaits, Claiming
    <2>3. CASE At(entry[p].name) = {}
      BY <2>1, <2>2, <2>3, <1>1 DEF ClaimAs, Return, Typed, World
    <2>4. CASE At(entry[p].name) # {}
      <3>1. PICK d \in Directories :
              LET claim == Claim(kind, entry[p].name, entry[p].identity, p)
              IN  /\ path' = [path EXCEPT ![d] = claim]
                  /\ entry' = [entry EXCEPT ![p].name = claim]
                  /\ Goto(p, IF d = entry[p].identity THEN next ELSE "over")
                  /\ UNCHANGED <<lease, todo, World>>
        BY <2>1, <2>4 DEF ClaimAs, At
      <3>2. Claim(kind, entry[p].name, entry[p].identity, p) \in EntryNames
        OBVIOUS
      <3> QED BY <2>2, <3>1, <3>2, <1>1 DEF Typed, World
    <2> QED BY <2>3, <2>4
  <1>4. CASE List(p)
    <2>1. "scan" \in Awaits
      BY DEF Awaits
    <2> QED BY <1>1, <1>2, <1>4, <2>1 DEF List, Typed, World
  <1>5. ASSUME NEW name \in todo[p], Inspect(p, name)
        PROVE  Typed'
    <2>1. name \in EntryNames /\ \A d \in At(name) : d \in Directories
      BY DEF Typed, At
    <2>2. Phase(name) \in Awaits /\ "over" \in Awaits
      BY DEF Phase, Awaits, Claiming, Scanning
    <2>3. \A d \in At(name) : [name |-> name, identity |-> d, lease |-> "none"] \in Entries
      BY <2>1, EntryParts DEF Leases
    <2>4. at' \in [Runs -> Awaits]
      BY <1>1, <1>5, <2>2 DEF Inspect, Typed
    <2>6. entry' \in [Runs -> Entries]
      <3>1. \/ entry' = entry
            \/ \E d \in At(name) :
                 entry' = [entry EXCEPT ![p] = [name |-> name, identity |-> d, lease |-> "none"]]
        BY <1>5 DEF Inspect
      <3>2. entry \in [Runs -> Entries]
        BY DEF Typed
      <3> QED BY <2>3, <3>1, <3>2
    <2>5. todo' \in [Runs -> SUBSET (EntryNames \ {Gone})]
      BY <1>5 DEF Inspect, Typed
    <2> QED BY <1>5, <2>4, <2>5, <2>6 DEF Inspect, Typed, World
  <1>6. CASE ReadLease(p)
    <2>1. {"provisional", "leased", "scan"} \subseteq Awaits
      BY DEF Awaits, Scanning
    <2>2. \A d \in At(entry[p].name) : lease[d] \in Leases
      BY <1>2 DEF At
    <2>3. CASE At(entry[p].name) = {}
      BY <1>1, <1>6, <2>1, <2>3 DEF ReadLease, Skip, Typed, World
    <2>4. CASE At(entry[p].name) # {}
      <3>1. PICK d \in At(entry[p].name) :
              /\ entry' = [entry EXCEPT ![p].lease = lease[d]]
              /\ Goto(p, IF lease[d] = "none" THEN "provisional" ELSE "leased")
              /\ UNCHANGED <<path, lease, todo, World>>
        BY <1>6, <2>4 DEF ReadLease
      <3> QED BY <1>1, <2>1, <2>2, <3>1 DEF Typed, World
    <2> QED BY <2>3, <2>4
  <1>7. CASE AuthenticateInitializer(p) \/ AuthenticateRunner(p)
    <2>1. {"claim", "over", "scan"} \subseteq Awaits
      BY DEF Awaits, Claiming
    <2> QED BY <1>1, <1>7, <2>1 DEF AuthenticateInitializer, AuthenticateRunner, Skip, Throw, Typed, World
  <1>8. CASE ClaimDirectory(p) \/ DeleteClaim(p)
    BY <1>3, <1>8 DEF ClaimDirectory, DeleteClaim
  <1>9. CASE Confirm(p)
    <2>1. {"delete", "over"} \subseteq Awaits
      BY DEF Awaits, Claiming
    <2> QED BY <1>1, <1>9, <2>1 DEF Confirm, Throw, Typed, World
  <1>10. CASE Erase(p)
    <2>1. "remove" \in Awaits /\ "none" \in Leases
      BY DEF Awaits, Claiming, Leases
    <2> QED BY <1>1, <1>2, <1>10, <2>1 DEF Erase, Typed, World
  <1>11. CASE Remove(p)
    <2>1. "over" \in Awaits /\ "scan" \in Awaits
      BY DEF Awaits
    <2> QED BY <1>1, <1>2, <1>11, <2>1 DEF Remove, Return, Typed, World
  <1> QED BY <1>4, <1>5, <1>6, <1>7, <1>8, <1>9, <1>10, <1>11 DEF Reclaim

LEMMA RunTyped ==
  ASSUME Typed, NEW p \in Runs, Run(p)
  PROVE  Typed'
  <1> USE RecordsTyped, NamesTyped, DirectoryFacts
  <1>1. ASSUME NEW await \in Awaits, Goto(p, await)
        PROVE  at' \in [Runs -> Awaits]
    BY <1>1 DEF Goto, Typed
  <1>2. Creating \cup Holding \cup {"over", "claim"} \subseteq Awaits
    BY DEF Awaits, Claiming
  <1>3. /\ "over" \in Awaits /\ "claim" \in Awaits /\ "publish" \in Awaits /\ "reserve" \in Awaits
        /\ "promote" \in Awaits /\ "prepare" \in Awaits /\ "await" \in Awaits
        /\ "null" \in Leases /\ "started" \in Supervisions /\ "failed" \in Supervisions
    BY DEF Awaits, Claiming, Creating, Holding, Leases, Supervisions
  <1>4. CASE Throw(p)
    BY <1>1, <1>3, <1>4 DEF Throw, Typed, World
  <1>8. CASE Create(p)
    BY <1>1, <1>3, <1>8 DEF Create, Steps, World, Typed
  <1>9. CASE Publish(p)
    <2>1. CASE ~ Throw(p)
      <3>1. at' \in [Runs -> Awaits]
        BY <1>1, <1>3, <1>9, <2>1 DEF Publish
      <3>2. lease' = [lease EXCEPT ![Initial(p)] = "null"] /\ UNCHANGED <<path, todo, entry, World>>
        BY <1>9, <2>1 DEF Publish
      <3>3. lease' \in [Directories -> Leases]
        BY <1>3, <3>2 DEF Typed
      <3> QED BY <3>1, <3>2, <3>3 DEF World, Typed
    <2> QED BY <1>4, <2>1
  <1>10. CASE Reserve(p)
    <2>1. CASE ~ Throw(p)
      <3>1. at' \in [Runs -> Awaits]
        BY <1>1, <1>3, <1>10, <2>1 DEF Reserve
      <3>2. path' = [path EXCEPT ![Reserved(p)] = Name("run", p)] /\ UNCHANGED Steps
        BY <1>10, <2>1 DEF Reserve
      <3>3. path' \in [Directories -> EntryNames]
        BY <1>3, <3>2 DEF Typed
      <3> QED BY <3>1, <3>2, <3>3 DEF Steps, World, Typed
    <2> QED BY <1>4, <2>1
  <1>11. CASE Promote(p)
    <2>1. CASE ~ Throw(p)
      <3>1. at' \in [Runs -> Awaits]
        BY <1>1, <1>3, <1>11, <2>1 DEF Promote
      <3>2. path' = [path EXCEPT ![Initial(p)] = Name("run", p), ![Reserved(p)] = Gone] /\ UNCHANGED Steps
        BY <1>11, <2>1 DEF Promote
      <3>3. path' \in [Directories -> EntryNames]
        BY <1>3, <3>2 DEF Typed
      <3> QED BY <3>1, <3>2, <3>3 DEF Steps, World, Typed
    <2> QED BY <1>4, <2>1
  <1>5. CASE FailToPrepare(p) \/ ConfirmRegistration(p) \/ Stop(p) \/ FinishStopping(p)
    BY <1>1, <1>2, <1>5 DEF FailToPrepare, ConfirmRegistration, Stop, FinishStopping, Steps, World,
                            Typed, Holding
  <1>12. CASE StartSupervisor(p)
    BY <1>1, <1>3, <1>12 DEF StartSupervisor, Typed
  <1>6. CASE StopTimesOut(p)
    BY <1>3, <1>6 DEF StopTimesOut, Typed
  <1>7. CASE LookAtOwn(p)
    <2>1. \A d \in At(Name("run", p)) :
            [name |-> Name("run", p), identity |-> d, lease |-> lease[d]] \in Entries
      BY EntryParts DEF At, Typed
    <2>2. CASE ~ Throw(p)
      <3>1. PICK d \in At(Name("run", p)) :
              /\ entry' = [entry EXCEPT ![p] = [name |-> Name("run", p), identity |-> d, lease |-> lease[d]]]
              /\ Goto(p, "claim") /\ UNCHANGED <<path, lease, todo, World>>
        BY <1>7, <2>2 DEF LookAtOwn
      <3> QED BY <1>1, <1>3, <2>1, <3>1 DEF World, Typed
    <2> QED BY <1>4, <2>2
  <1> QED BY <1>5, <1>6, <1>7, <1>8, <1>9, <1>10, <1>11, <1>12 DEF Run

LEMMA SuperviseTyped ==
  ASSUME Typed, NEW p \in Runs, Supervise(p)
  PROVE  Typed'
  <1>1. \A s \in Supervisions : [supervisor EXCEPT ![p] = s] \in [Runs -> Supervisions]
    BY DEF Typed
  <1>2. \A a \in Anvils : [anvil EXCEPT ![p] = a] \in [Runs -> Anvils]
    BY DEF Typed
  <1>3. CASE SpawnAnvil(p) \/ StopChild(p) \/ AnvilExits(p)
    <2>1. {"spawned", "exited", "failed"} \subseteq Supervisions /\ {"alive", "stopped"} \subseteq Anvils
      BY DEF Supervisions, Anvils
    <2> QED BY <1>1, <1>2, <1>3, <2>1 DEF SpawnAnvil, StopChild, AnvilExits, Rest, Typed
  <1>4. CASE ReadToRegister(p) \/ Terminate(p) \/ Fail(p) \/ ChildDoesNotClose(p)
    <2>1. {"registering", "finishing", "failing", "failed"} \subseteq Supervisions
      BY DEF Supervisions
    <2> QED BY <1>1, <1>4, <2>1 DEF ReadToRegister, Terminate, Fail, ChildDoesNotClose, Rest, Typed
  <1>5. CASE Register(p)
    <2>1. {"registered", "failing"} \subseteq Supervisions /\ "registered" \in Leases
      BY DEF Supervisions, Leases
    <2> QED BY <1>1, <1>5, <2>1 DEF Register, Rest, Typed
  <1> QED BY <1>3, <1>4, <1>5 DEF Supervise

LEMMA KillTyped ==
  ASSUME Typed, NEW p \in Runs, Kill(p)
  PROVE  Typed'
  <1>1. "failed" \in Supervisions /\ "over" \in Awaits
    BY DEF Supervisions, Awaits
  <1> QED BY <1>1 DEF Kill, Goto, Typed

LEMMA NextTyped ==
  ASSUME Typed, [Next]_vars
  PROVE  Typed'
  <1>1. CASE Next
    BY <1>1, ReclaimTyped, RunTyped, SuperviseTyped, KillTyped DEF Next
  <1>2. CASE UNCHANGED vars
    BY <1>2 DEF vars, Typed
  <1> QED BY <1>1, <1>2

----------------------------------------------------------------------------
(* What no step takes back.                                                *)

AtEnd(r) == at[r] = "over" \/ Ending(r)

ProgressOf(r) ==
  /\ at[r] # "new" => at'[r] # "new"
  /\ at[r] = "over" => at'[r] = "over"
  /\ AtEnd(r) => AtEnd(r)'
  /\ ~ Reclaiming(r) => ~ Reclaiming(r)'
  /\ ~ Reclaiming(r) /\ at[r] \notin {"publish", "reserve"} => at'[r] \notin {"publish", "reserve"}
  /\ Settled(r) => Settled(r)'
  /\ supervisor[r] \notin {"none", "started"} => supervisor'[r] \notin {"none", "started"}

Progress == \A r \in Runs : ProgressOf(r)

\* A run stands still, and what is its own stays as it is.
Stands(r) ==
  /\ at'[r] = at[r] /\ entry'[r] = entry[r]
  /\ supervisor'[r] = supervisor[r] /\ anvil'[r] = anvil[r]

Untouched(r) ==
  /\ path'[Initial(r)] = path[Initial(r)] /\ path'[Reserved(r)] = path[Reserved(r)]
  /\ lease'[Initial(r)] = lease[Initial(r)] /\ lease'[Reserved(r)] = lease[Reserved(r)]

LEMMA StandingProgress ==
  ASSUME NEW r \in Runs, Stands(r)
  PROVE  ProgressOf(r)
  BY DEF Stands, ProgressOf, AtEnd, Ending, Reclaiming, Settled

LEMMA StandingSound ==
  ASSUME LeaseSound, Progress, NEW r \in Runs, Stands(r), Untouched(r)
  PROVE  NamesSound(r)' /\ RunSound(r)'
  <1>1. NamesSound(r) /\ RunSound(r)
    BY DEF LeaseSound
  <1>2. (Ending(r)' <=> Ending(r)) /\ (Reclaiming(r)' <=> Reclaiming(r))
        /\ (Settled(r)' <=> Settled(r)) /\ (Unstarted(r)' <=> Unstarted(r))
    BY DEF Stands, Ending, Reclaiming, Settled, Unstarted
  <1>3. \A q \in Runs : at[q] # "new" => at'[q] # "new"
    BY DEF Progress, ProgressOf
  <1>4. NamesSound(r)'
    BY <1>1, <1>2, <1>3 DEF NamesSound, Stands, Untouched
  <1>5. RunSound(r)'
    BY <1>1, <1>2 DEF RunSound, Stands, Untouched
  <1> QED BY <1>4, <1>5

\* How p may change the name of d: no live claim of another is touched, and no
\* name is made that another run may hold for something else.
Renames(p, d) ==
  /\ path[d].by \in {Nobody, p} \/ at[path[d].by] = "over"
  /\ \/ path'[d] = Gone
     \/ path'[d].by = p /\ at[p] # "over"
     \/ path'[d] = Name("initialize", p) /\ Reclaiming(p)
     \/ path'[d] = Name("run", p) /\ at[p] = "reserve"
     \/ path'[d] = Name("run", p) /\ at[p] = "promote" /\ d = Initial(p)

LEMMA StandingEntry ==
  ASSUME LeaseSound, Progress, NEW p \in Runs, NEW q \in Runs, p # q, Stands(q),
         \A d \in Directories : path'[d] = path[d] \/ Renames(p, d)
  PROVE  EntrySound(q)'
  <1>1. EntrySound(q)
    BY DEF LeaseSound
  <1>2. PICK e, r : e = entry[q] /\ e = entry'[q] /\ r = e.name.run
    BY DEF Stands
  <1>3. Nobody \notin Runs
    BY LeaseAssumption
  <1>4. ASSUME at[q] \in Scanning \cup Claiming
        PROVE  Looked(q, e, r)'
    <2>1. Looked(q, e, r)
      BY <1>1, <1>2, <1>4 DEF EntrySound
    <2>2. ASSUME NEW d \in Directories, path'[d] = e.name, d # e.identity
          PROVE  e.name = Name("run", r) /\ e.identity = Reserved(r)
      <3>1. CASE path'[d] = path[d]
        BY <2>1, <2>2, <3>1 DEF Looked, At
      <3>2. CASE path'[d] # path[d]
        <4>1. Renames(p, d)
          BY <3>2
        <4>3. e.name # Gone /\ r \in Runs /\ ~ Reclaiming(r)
              /\ (e.name.of = "run" => at[r] \notin {"publish", "reserve"})
              /\ e.identity \in {Initial(r), Reserved(r)}
          BY <2>1 DEF Looked
        <4>4. e.name.by = p => at[p] = "over"
          BY <1>3, <2>1 DEF Looked
        <4>5. CASE path'[d] = Name("initialize", p) /\ Reclaiming(p)
          BY <1>2, <2>2, <4>3, <4>5, NameFacts
        <4>6. CASE path'[d] = Name("run", p) /\ at[p] = "reserve"
          BY <1>2, <2>2, <4>3, <4>6, NameFacts
        <4>7. CASE path'[d] = Name("run", p) /\ d = Initial(p)
          BY <1>2, <2>2, <4>3, <4>7, NameFacts
        <4> QED BY <2>2, <4>1, <4>3, <4>4, <4>5, <4>6, <4>7 DEF Renames
      <3> QED BY <3>1, <3>2
    <2>3. \A d \in At(e.name)' : d = e.identity \/ (e.name = Name("run", r) /\ e.identity = Reserved(r))
      BY <2>2 DEF At
    <2>4. ProgressOf(r) /\ (e.name.by \in Runs /\ at[e.name.by] = "over" => at'[e.name.by] = "over")
      BY <2>1 DEF Looked, Progress, ProgressOf
    <2> QED BY <2>1, <2>3, <2>4 DEF Looked, ProgressOf
  <1>5. ASSUME at[q] \in Scanning
        PROVE  Read(q, e, r)'
    <2>1. Looked(q, e, r) /\ Read(q, e, r)
      BY <1>1, <1>2, <1>5 DEF EntrySound
    <2> QED BY <2>1 DEF Looked, Read, Stands, Progress, ProgressOf
  <1>6. ASSUME at[q] \in Claiming
        PROVE  Claims(q, e, r)'
    <2>1. Looked(q, e, r) /\ Claims(q, e, r)
      BY <1>1, <1>2, <1>6 DEF EntrySound
    <2>2. e.name.by = q => path'[e.identity] = e.name
      <3>1. e.identity \in Directories /\ at[q] # "over"
        BY <1>6, <2>1, DirectoryFacts DEF Looked, Claiming
      <3>2. CASE path'[e.identity] = path[e.identity]
        BY <2>1, <3>2 DEF Claims
      <3>3. CASE path'[e.identity] # path[e.identity]
        BY <1>3, <2>1, <3>1, <3>3 DEF Claims, Renames
      <3> QED BY <3>2, <3>3
    <2>3. ProgressOf(r)
      BY <2>1 DEF Looked, Progress
    <2> QED BY <2>1, <2>2, <2>3 DEF Claims, Stands, ProgressOf
  <1>7. at'[q] = at[q]
    BY DEF Stands
  <1> QED BY <1>2, <1>4, <1>5, <1>6, <1>7 DEF EntrySound

\* A step of p that touches no directory of another.
LEMMA OwnStep ==
  ASSUME LeaseSound, NEW p \in Runs, ProgressOf(p),
         \A q \in Runs \ {p} : Stands(q) /\ Untouched(q),
         \A d \in Directories : path'[d] = path[d] \/ Renames(p, d),
         NamesSound(p)', RunSound(p)', EntrySound(p)'
  PROVE  LeaseSound'
  <1>1. Progress
    BY StandingProgress DEF Progress
  <1>2. ASSUME NEW q \in Runs \ {p}
        PROVE  NamesSound(q)' /\ RunSound(q)' /\ EntrySound(q)'
    BY <1>1, <1>2, StandingSound, StandingEntry
  <1> QED BY <1>2 DEF LeaseSound

----------------------------------------------------------------------------
(* Scans.                                                                  *)

\* A process ends, by an error or a kill.
LEMMA OverStep ==
  ASSUME Typed, LeaseSound, NEW p \in Runs, Goto(p, "over"),
         UNCHANGED <<path, lease, entry, supervisor, anvil>>
  PROVE  LeaseSound'
  <1>1. at'[p] = "over" /\ \A q \in Runs \ {p} : at'[q] = at[q]
    BY DEF Goto, Typed
  <1>2. \A q \in Runs \ {p} : Stands(q) /\ Untouched(q)
    BY <1>1 DEF Stands, Untouched
  <1>3. ~ Reclaiming(p)' /\ ~ Ending(p)' /\ AtEnd(p)'
    BY <1>1 DEF Reclaiming, Ending, AtEnd, Scanning, Claiming
  <1>4. ProgressOf(p) /\ (Settled(p) \/ Unstarted(p) => Settled(p)')
    BY <1>1, <1>3 DEF ProgressOf, Settled, Unstarted
  <1>5. RunSound(p)' /\ EntrySound(p)'
    BY <1>1, <1>3 DEF RunSound, EntrySound, Scanning, Claiming, Creating, Holding
  <1>6. NamesSound(p)'
    <2>1. NamesSound(p) /\ RunSound(p)
      BY DEF LeaseSound
    <2>2. Reclaiming(p) => Unstarted(p)
      BY <2>1 DEF RunSound
    <2>3. \A q \in Runs : at[q] # "new" => at'[q] # "new"
      BY <1>1
    <2>4. Unstarted(p) => Unstarted(p)'
      BY DEF Unstarted
    <2> QED BY <1>1, <1>4, <2>1, <2>2, <2>3, <2>4 DEF NamesSound
  <1> QED BY <1>2, <1>4, <1>5, <1>6, OwnStep

\* A run that has nothing of its own looks at what others left.
LEMMA LookStep ==
  ASSUME Typed, LeaseSound, NEW p \in Runs, NEW await \in {"scan"} \cup Scanning \cup Claiming,
         Goto(p, await), UNCHANGED <<path, lease, supervisor, anvil>>,
         \A q \in Runs \ {p} : entry'[q] = entry[q],
         Reclaiming(p), Reclaiming(p)', EntrySound(p)'
  PROVE  LeaseSound'
  <1>1. at'[p] = await /\ \A q \in Runs \ {p} : at'[q] = at[q]
    BY DEF Goto, Typed
  <1>2. \A q \in Runs \ {p} : Stands(q) /\ Untouched(q)
    BY <1>1 DEF Stands, Untouched
  <1>3. /\ at[p] # "over" /\ at'[p] \notin {"new", "over"} \cup Creating \cup Holding
        /\ ~ Ending(p) /\ ~ Ending(p)'
    BY <1>1 DEF Reclaiming, Ending, Scanning, Claiming, Creating, Holding
  <1>4. ProgressOf(p)
    BY <1>3 DEF ProgressOf, Settled, AtEnd
  <1>5. RunSound(p)'
    <2>1. RunSound(p)
      BY DEF LeaseSound
    <2> QED BY <1>3, <2>1 DEF RunSound, Unstarted, Holding
  <1>6. NamesSound(p)'
    <2>1. NamesSound(p) /\ RunSound(p)
      BY DEF LeaseSound
    <2>2. path[Initial(p)] = Gone /\ path[Reserved(p)] = Gone
      BY <2>1 DEF RunSound
    <2> QED BY <2>1, <2>2, GoneFacts DEF NamesSound
  <1> QED BY <1>2, <1>4, <1>5, <1>6, OwnStep

\* The scan goes on.
LEMMA ScanStep ==
  ASSUME Typed, LeaseSound, NEW p \in Runs, Goto(p, "scan"),
         UNCHANGED <<path, lease, supervisor, anvil>>,
         \A q \in Runs \ {p} : entry'[q] = entry[q], Reclaiming(p)
  PROVE  LeaseSound'
  <1>1. at'[p] = "scan"
    BY DEF Goto, Typed
  <1>2. Reclaiming(p)' /\ EntrySound(p)'
    BY <1>1 DEF Reclaiming, EntrySound, Scanning, Claiming
  <1> QED BY <1>2, LookStep

LEMMA ListKeeps ==
  ASSUME Typed, LeaseSound, NEW p \in Runs, List(p)
  PROVE  LeaseSound'
  BY ScanStep DEF List, Reclaiming, World

\* A directory that has a name is that of a run, which no longer scans.
LEMMA NamedIsMade ==
  ASSUME Typed, LeaseSound, NEW d \in Directories, path[d] # Gone
  PROVE  /\ path[d].run \in Runs /\ d \in {Initial(path[d].run), Reserved(path[d].run)}
         /\ ~ Reclaiming(path[d].run)
         /\ path[d].of = "run" => at[path[d].run] \notin {"publish", "reserve"}
         /\ path[d].of \in {"initialize", "run"} /\ (d = Reserved(path[d].run) => path[d].of = "run")
         /\ \A e \in Directories : path[e] = path[d] => e = d
  <1>1. PICK r \in Runs : d = Initial(r) \/ d = Reserved(r)
    BY DirectoryFacts
  <1>2. NamesSound(r) /\ RunSound(r)
    BY DEF LeaseSound
  <1>3. path[d].run = r /\ path[d].of \in {"initialize", "run"} /\ (d = Reserved(r) => path[d].of = "run")
    BY <1>1, <1>2 DEF NamesSound
  <1>4. ~ Reclaiming(r)
    BY <1>1, <1>2 DEF RunSound
  <1>5. path[d].of = "run" => at[r] \notin {"publish", "reserve"}
    BY <1>1, <1>2, NameFacts, GoneFacts DEF RunSound, Creating
  <1>6. ASSUME NEW e \in Directories, path[e] = path[d]
        PROVE  e = d
    <2>1. PICK s \in Runs : e = Initial(s) \/ e = Reserved(s)
      BY DirectoryFacts
    <2>2. path[e].run = s
      BY <1>6, <2>1 DEF LeaseSound, NamesSound
    <2> QED BY <1>1, <1>2, <1>3, <1>6, <2>1, <2>2, DirectoryFacts DEF NamesSound
  <1> QED BY <1>1, <1>3, <1>4, <1>5, <1>6

LEMMA InspectKeeps ==
  ASSUME Typed, LeaseSound, NEW p \in Runs, NEW name \in todo[p], Inspect(p, name)
  PROVE  LeaseSound'
  <1>1. Reclaiming(p) /\ at[p] = "scan" /\ name # Gone
    BY DEF Inspect, Reclaiming, Typed
  <1>2. CASE Goto(p, "over") /\ UNCHANGED entry
    BY <1>2, OverStep DEF Inspect, World
  <1>3. CASE UNCHANGED <<at, entry>>
    <2>1. Goto(p, "scan")
      BY <1>1, <1>3 DEF Goto, Typed
    <2> QED BY <1>1, <1>3, <2>1, ScanStep DEF Inspect, World
  <1>4. ASSUME NEW d \in At(name), Goto(p, Phase(name)), ~ Owned(name),
               entry' = [entry EXCEPT ![p] = [name |-> name, identity |-> d, lease |-> "none"]]
        PROVE  LeaseSound'
    <2> DEFINE r == name.run
    <2>1. d \in Directories /\ path[d] = name
      BY DEF At
    <2>2. /\ r \in Runs /\ d \in {Initial(r), Reserved(r)} /\ ~ Reclaiming(r)
          /\ (name.of = "run" => at[r] \notin {"publish", "reserve"})
          /\ name.of \in {"initialize", "run"} /\ (d = Reserved(r) => name.of = "run")
          /\ \A e \in At(name) : e = d
      BY <1>1, <2>1, NamedIsMade DEF At
    <2>3. r # p /\ at[r] # "new"
      BY <1>1, <2>2 DEF Reclaiming
    <2>4. NamesSound(r)
      BY <2>2 DEF LeaseSound
    <2>5. name.by # Nobody => name.by \in Runs /\ at[name.by] = "over" /\ name.by # p
      BY <1>1, <1>4, <2>1, <2>2, <2>4 DEF NamesSound, Owned, Alive
    <2>6. PICK e : e = [name |-> name, identity |-> d, lease |-> "none"]
      OBVIOUS
    <2>7. e.name = name /\ e.identity = d /\ entry'[p] = e /\ \A q \in Runs \ {p} : entry'[q] = entry[q]
      BY <1>4, <2>6 DEF Typed
    <2>8. at'[p] = Phase(name) /\ \A q \in Runs \ {p} : at'[q] = at[q]
      BY <1>4 DEF Goto, Typed
    <2>9. UNCHANGED <<path, lease, supervisor, anvil>>
      BY DEF Inspect, World
    <2>10. Phase(name) \in {"delete", "claim", "read"}
      BY DEF Phase
    <2>11. Reclaiming(p)' /\ (Reclaiming(r)' <=> Reclaiming(r))
      <3>1. entry'[r] = entry[r] /\ at'[r] = at[r]
        BY <2>2, <2>3, <2>7, <2>8
      <3> QED BY <2>3, <2>7, <2>8, <2>10, <3>1 DEF Reclaiming, Scanning, Claiming
    <2>12. Looked(p, e, r)'
      BY <1>1, <2>2, <2>3, <2>5, <2>7, <2>8, <2>9, <2>11 DEF Looked, At
    <2>13. Phase(name) = "read" => Read(p, e, r)'
      BY <2>2, <2>3, <2>5, <2>7, <2>8, LeaseAssumption DEF Read, Phase
    <2>14. Phase(name) \in {"claim", "delete"} => Claims(p, e, r)'
      <3>1. ASSUME Phase(name) \in {"claim", "delete"}
            PROVE  at[r] = "over" /\ (d = Initial(r) => Settled(r))
        <4>1. CASE name.kind = "delete"
          <5>1. name.by # Nobody
            BY <2>1, <2>2, <2>4, <4>1 DEF NamesSound
          <5>2. at[r] = "over"
            BY <2>1, <2>2, <2>4, <2>5, <5>1 DEF NamesSound
          <5> QED BY <2>1, <2>2, <2>4, <4>1, <5>2 DEF NamesSound
        <4>2. CASE name.kind # "delete"
          <5>1. name.of = "initialize" /\ ~ Alive(r)
            BY <1>4, <3>1, <4>2 DEF Phase, Owned
          <5>2. at[r] = "over" /\ d = Initial(r)
            BY <2>2, <2>3, <5>1 DEF Alive
          <5>3. Unstarted(r)
            BY <2>1, <2>4, <5>1, <5>2 DEF NamesSound
          <5> QED BY <5>2, <5>3 DEF Settled, Unstarted
        <4> QED BY <4>1, <4>2
      <3>2. Settled(r) /\ at[r] = "over" => Settled(r)' /\ at'[r] = "over"
        BY <2>2, <2>3, <2>8, <2>9 DEF Settled
      <3>3. Phase(name) = "delete" <=> name.kind = "delete"
        BY DEF Phase
      <3>4. name.by # p
        BY <2>5, LeaseAssumption
      <3>5. \A q \in Runs \ {p} : at'[q] = at[q]
        BY <2>8
      <3> HIDE DEF r
      <3> QED BY <2>2, <2>3, <2>7, <2>8, <3>1, <3>2, <3>3, <3>4, <3>5 DEF Claims
    <2>15. EntrySound(p)'
      <3>1. e.name.run = r
        BY <2>7
      <3> HIDE DEF r
      <3> QED BY <2>7, <2>8, <2>10, <2>12, <2>13, <2>14, <3>1 DEF EntrySound, Scanning, Claiming
    <2>16. Phase(name) \in {"scan"} \cup Scanning \cup Claiming
      BY <2>10 DEF Scanning, Claiming
    <2> QED BY <1>1, <1>4, <2>7, <2>9, <2>11, <2>15, <2>16, LookStep
  <1> QED BY <1>2, <1>3, <1>4 DEF Inspect

\* p reads on: what it knows of the entry under hand stays true.
LEMMA LooksOn ==
  ASSUME Typed, LeaseSound, NEW p \in Runs, at[p] \in Scanning,
         NEW await \in Scanning \cup {"claim"}, Goto(p, await),
         UNCHANGED <<path, lease, supervisor, anvil>>,
         \A q \in Runs \ {p} : entry'[q] = entry[q],
         NEW e, e = entry'[p], e.name = entry[p].name, e.identity = entry[p].identity,
         LET r == e.name.run
         IN  IF await = "claim" THEN at[r] = "over" /\ (e.identity = Initial(r) => Settled(r))
             ELSE /\ await = "provisional" => e.identity = Reserved(r)
                  /\ await = "leased" /\ e.lease # "null" => supervisor[r] \notin {"none", "started"}
  PROVE  LeaseSound'
  <1>1. PICK r : r = entry[p].name.run
    OBVIOUS
  <1>2. at'[p] = await /\ \A q \in Runs \ {p} : at'[q] = at[q]
    BY DEF Goto, Typed
  <1>3. EntrySound(p)
    BY DEF LeaseSound
  <1>4. Looked(p, e, r) /\ Read(p, entry[p], r)
    BY <1>1, <1>3 DEF EntrySound, Looked
  <1>5. r \in Runs /\ r # p /\ e.name.run = r /\ at'[r] = at[r] /\ entry'[r] = entry[r]
    BY <1>1, <1>2, <1>4 DEF Looked, Read
  <1>6. Reclaiming(p) /\ Reclaiming(p)' /\ (Reclaiming(r)' <=> Reclaiming(r)) /\ (Settled(r) => Settled(r)')
    BY <1>2, <1>5 DEF Reclaiming, Settled, Ending, Scanning, Claiming
  <1>7. Looked(p, e, r)'
    <2>1. e.name.by \in {Nobody, p} \/ (e.name.by \in Runs \ {p} /\ at[e.name.by] = "over")
      BY <1>4 DEF Looked
    <2>2. e.name.by \in {Nobody, p} \/ (e.name.by \in Runs /\ at'[e.name.by] = "over")
      BY <1>2, <2>1
    <2> QED BY <1>4, <1>5, <1>6, <2>2 DEF Looked, At
  <1>8. await \in Scanning => Read(p, e, r)'
    BY <1>1, <1>2, <1>4, <1>5 DEF Read, Scanning
  <1>9. await = "claim" => Claims(p, e, r)'
    BY <1>1, <1>2, <1>4, <1>5, <1>6 DEF Read, Claims
  <1>10. EntrySound(p)'
    BY <1>2, <1>5, <1>7, <1>8, <1>9 DEF EntrySound, Scanning, Claiming
  <1>11. await \in {"scan"} \cup Scanning \cup Claiming
    BY DEF Claiming
  <1> QED BY <1>6, <1>10, <1>11, LookStep

LEMMA SkipKeeps ==
  ASSUME Typed, LeaseSound, NEW p \in Runs, Skip(p), Reclaiming(p)
  PROVE  LeaseSound'
  BY ScanStep DEF Skip, World, Typed

LEMMA ThrowKeeps ==
  ASSUME Typed, LeaseSound, NEW p \in Runs, Throw(p)
  PROVE  LeaseSound'
  BY OverStep DEF Throw, World

LEMMA ReadLeaseKeeps ==
  ASSUME Typed, LeaseSound, NEW p \in Runs, ReadLease(p)
  PROVE  LeaseSound'
  <1>1. at[p] \in Scanning /\ Reclaiming(p)
    BY DEF ReadLease, Reclaiming, Scanning
  <1>2. CASE Skip(p)
    BY <1>1, <1>2, SkipKeeps
  <1>3. ASSUME NEW d \in At(entry[p].name),
               entry' = [entry EXCEPT ![p].lease = lease[d]],
               Goto(p, IF lease[d] = "none" THEN "provisional" ELSE "leased"),
               UNCHANGED <<path, lease, todo, World>>
        PROVE  LeaseSound'
    <2>1. PICK e : e = entry'[p]
      OBVIOUS
    <2>2. PICK r : r = entry[p].name.run
      OBVIOUS
    <2>3. /\ e.name = entry[p].name /\ e.identity = entry[p].identity /\ e.lease = lease[d]
          /\ \A q \in Runs \ {p} : entry'[q] = entry[q]
      BY <1>3, <2>1, RecordsTyped DEF Typed, Entries
    <2>4. Looked(p, e, r) /\ Read(p, entry[p], r)
      BY <1>1, <2>2, <2>3 DEF LeaseSound, EntrySound, Looked
    <2>5. NamesSound(r) /\ r \in Runs /\ d \in Directories /\ path[d] = e.name
          /\ (d = e.identity \/ e.identity = Reserved(r)) /\ e.identity \in {Initial(r), Reserved(r)}
      BY <1>3, <2>3, <2>4 DEF Looked, At, LeaseSound
    <2>6. lease[d] = "none" => e.identity = Reserved(r)
      BY <2>3, <2>4, <2>5 DEF NamesSound, Read
    <2>7. lease[d] \notin {"none", "null"} => supervisor[r] \notin {"none", "started"}
      <3>1. path[d] # Gone /\ path[d].run = r
        BY <2>2, <2>3, <2>4, <2>5 DEF Looked
      <3>2. d \in {Initial(r), Reserved(r)}
        BY <2>5, <3>1, NamedIsMade
      <3>3. lease[d] \in Leases
        BY <2>5 DEF Typed
      <3> QED BY <2>5, <3>2, <3>3 DEF NamesSound, Leases
    <2>8. PICK await : await = IF lease[d] = "none" THEN "provisional" ELSE "leased"
      OBVIOUS
    <2>9. await \in Scanning \cup {"claim"} /\ await # "claim" /\ Goto(p, await)
      BY <1>3, <2>8 DEF Scanning
    <2>10. e.name.run = r
      BY <2>2, <2>3
    <2>11. /\ await = "provisional" => e.identity = Reserved(e.name.run)
           /\ await = "leased" /\ e.lease # "null" => supervisor[e.name.run] \notin {"none", "started"}
      BY <2>3, <2>6, <2>7, <2>8, <2>10
    <2>12. UNCHANGED <<path, lease, supervisor, anvil>>
      BY <1>3 DEF World
    <2> QED BY <1>1, <2>1, <2>3, <2>9, <2>11, <2>12, LooksOn
  <1> QED BY <1>2, <1>3 DEF ReadLease

LEMMA AuthenticateKeeps ==
  ASSUME Typed, LeaseSound, NEW p \in Runs, AuthenticateInitializer(p) \/ AuthenticateRunner(p)
  PROVE  LeaseSound'
  <1>1. at[p] \in Scanning /\ Reclaiming(p)
    BY DEF AuthenticateInitializer, AuthenticateRunner, Reclaiming, Scanning
  <1>2. PICK e, r : e = entry[p] /\ r = e.name.run
    OBVIOUS
  <1>3. Looked(p, e, r) /\ Read(p, e, r)
    BY <1>1, <1>2 DEF LeaseSound, EntrySound
  <1>4. CASE Skip(p) \/ Throw(p)
    BY <1>1, <1>4, SkipKeeps, ThrowKeeps
  <1>5. ASSUME ~ Alive(r), Goto(p, "claim"), UNCHANGED <<path, lease, todo, entry, World>>,
               at[p] = "provisional" \/ (at[p] = "leased" /\ Stopped(e))
        PROVE  LeaseSound'
    <2>1. at[r] = "over"
      BY <1>3, <1>5 DEF Looked, Alive, Reclaiming
    <2>2. e.identity = Initial(r) => Settled(r)
      <3>1. CASE at[p] = "provisional"
        BY <1>3, <3>1, DirectoryFacts DEF Looked, Read
      <3>2. CASE at[p] = "leased" /\ Stopped(e)
        BY <1>2, <1>3, <2>1, <3>2 DEF Read, Stopped, Settled
      <3> QED BY <1>5, <3>1, <3>2
    <2>3. e = entry'[p] /\ \A q \in Runs \ {p} : entry'[q] = entry[q]
      BY <1>2, <1>5
    <2>4. "claim" \in Scanning \cup {"claim"}
      OBVIOUS
    <2> QED BY <1>1, <1>2, <1>5, <2>1, <2>2, <2>3, <2>4, LooksOn DEF World
  <1> QED BY <1>2, <1>4, <1>5 DEF AuthenticateInitializer, AuthenticateRunner

----------------------------------------------------------------------------
(* Claims.                                                                 *)

\* At its end, or before it has made anything, a run's promises are few.
LEMMA EndSound ==
  ASSUME LeaseSound, Progress, NEW r \in Runs, AtEnd(r)
  PROVE  RunSound(r)'
  <1>1. AtEnd(r)' /\ ~ Reclaiming(r)' /\ at'[r] \notin Creating \cup Holding
    <2>1. AtEnd(r)'
      BY DEF Progress, ProgressOf
    <2> QED BY <2>1 DEF AtEnd, Ending, Reclaiming, Claiming, Scanning, Creating, Holding
  <1>2. Ending(r)' => Settled(r)'
    <2>1. Ending(r) => Settled(r)
      BY DEF LeaseSound, RunSound
    <2>2. at[r] = "over" => ~ Ending(r)'
      BY DEF Progress, ProgressOf, Ending, Claiming
    <2> QED BY <2>1, <2>2 DEF AtEnd, Progress, ProgressOf
  <1> QED BY <1>1, <1>2 DEF RunSound, Creating, Holding

\* A step of p, with the entry e of the run r under hand, that touches no
\* directory but d, of r.
LEMMA ClaimerStep ==
  ASSUME LeaseSound, NEW p \in Runs, NEW r \in Runs, NEW d \in {Initial(r), Reserved(r)},
         at[p] \in Claiming, r = entry[p].name.run, r = p \/ at[r] = "over",
         at'[p] \in {"scan", "over"} \cup Claiming,
         at'[p] \in Claiming => entry'[p].name.run = r,
         at'[p] = "scan" => r # p,
         \A q \in Runs \ {p} : at'[q] = at[q] /\ entry'[q] = entry[q],
         UNCHANGED <<supervisor, anvil>>,
         \A f \in Directories \ {d} : path'[f] = path[f] /\ lease'[f] = lease[f],
         path'[d] = path[d] \/ Renames(p, d),
         Progress => NamesSound(r)', EntrySound(p)'
  PROVE  LeaseSound'
  <1>1. ProgressOf(p) /\ (AtEnd(p) <=> r = p)
    <2>1. Ending(p) <=> r = p
      BY DEF Ending
    <2>2. Reclaiming(p) <=> r # p
      BY DEF Reclaiming, Claiming, Scanning
    <2>3. AtEnd(p) <=> r = p
      BY <2>1 DEF AtEnd, Claiming
    <2>4. r = p => Ending(p)' \/ at'[p] = "over"
      BY DEF Ending
    <2>5. r = p => ~ Reclaiming(p)'
      BY DEF Reclaiming, Claiming, Scanning
    <2>6. at[p] \notin {"new", "over"} /\ at'[p] \notin {"new", "publish", "reserve"}
      BY DEF Claiming
    <2>7. Settled(p) => Settled(p)'
      BY <2>1, <2>4, <2>6 DEF Settled
    <2> QED BY <2>2, <2>3, <2>4, <2>5, <2>6, <2>7 DEF ProgressOf, AtEnd
  <1>2. \A q \in Runs \ {p} : Stands(q)
    BY DEF Stands
  <1>3. Progress
    BY <1>1, <1>2, StandingProgress DEF Progress
  <1>4. \A f \in Directories : path'[f] = path[f] \/ Renames(p, f)
    OBVIOUS
  <1>5. \A q \in Runs \ {p} : EntrySound(q)'
    BY <1>2, <1>3, <1>4, StandingEntry
  <1>6. \A q \in Runs \ {r} : Untouched(q)
    BY DirectoryFacts DEF Untouched
  <1>7. \A q \in Runs \ {p, r} : NamesSound(q)' /\ RunSound(q)'
    BY <1>2, <1>3, <1>6, StandingSound
  <1>8. RunSound(r)'
    BY <1>1, <1>3, EndSound DEF AtEnd
  <1>9. r # p => NamesSound(p)' /\ RunSound(p)'
    <2>1. SUFFICES ASSUME r # p
                   PROVE  NamesSound(p)' /\ RunSound(p)'
      OBVIOUS
    <2>2. NamesSound(p) /\ RunSound(p) /\ Untouched(p)
      BY <1>6, <2>1 DEF LeaseSound
    <2>3. Reclaiming(p) /\ ~ Ending(p) /\ at[p] # "over"
      BY <2>1 DEF Reclaiming, Ending, Claiming
    <2>4. path[Initial(p)] = Gone /\ path[Reserved(p)] = Gone /\ Unstarted(p) /\ ~ Ending(p)'
      BY <2>1, <2>2, <2>3 DEF RunSound, Ending, Claiming
    <2>5. Reclaiming(p)' \/ (at'[p] = "over" /\ ~ Reclaiming(p)')
      BY <2>1 DEF Reclaiming, Claiming, Scanning
    <2>6. /\ Unstarted(p)' /\ (at'[p] = "over" => Settled(p)')
          /\ path'[Initial(p)] = Gone /\ path'[Reserved(p)] = Gone
      BY <2>2, <2>4 DEF Unstarted, Settled, Untouched
    <2>7. NamesSound(p)'
      <3>1. lease'[Initial(p)] = lease[Initial(p)] /\ lease'[Reserved(p)] = lease[Reserved(p)]
        BY <2>2 DEF Untouched
      <3> QED BY <2>2, <2>4, <2>5, <2>6, <3>1, GoneFacts DEF NamesSound, Unstarted
    <2>8. RunSound(p)'
      BY <2>4, <2>5, <2>6 DEF RunSound, Claiming, Creating, Holding
    <2> QED BY <2>7, <2>8
  <1> QED BY <1>3, <1>5, <1>7, <1>8, <1>9 DEF LeaseSound

\* The names of a run at its end, one of whose directories is claimed, emptied or
\* removed.
LEMMA EndNames ==
  ASSUME LeaseSound, Progress, NEW r \in Runs, AtEnd(r), UNCHANGED <<supervisor, anvil>>,
         NEW d \in {Initial(r), Reserved(r)},
         \A f \in {Initial(r), Reserved(r)} : f # d => path'[f] = path[f] /\ lease'[f] = lease[f],
         d = Initial(r) /\ path'[d].kind = "delete" => path[d].kind = "delete" \/ Settled(r),
         \/ path'[d] = path[d] /\ lease'[d] = lease[d]
         \/ path'[d] = path[d] /\ lease'[d] = "none" /\ path[d].kind = "delete"
         \/ path'[d] = Gone /\ lease'[d] = lease[d] /\ (d = Initial(r) => Settled(r))
         \/ /\ path[d] # Gone /\ path'[d] # Gone /\ lease'[d] = lease[d]
            /\ path'[d].run = path[d].run /\ path'[d].of = path[d].of
            /\ path'[d].by \in Runs /\ at[path'[d].by] # "new"
            /\ path'[d].by = r \/ at[r] = "over"
            /\ path[d].kind # "delete" \/ path'[d].kind = "delete"
  PROVE  NamesSound(r)'
  <1>1. NamesSound(r)
    BY DEF LeaseSound
  <1>2. \A q \in Runs : (at[q] # "new" => at'[q] # "new") /\ (at[q] = "over" => at'[q] = "over")
    BY DEF Progress, ProgressOf
  <1>3. (Settled(r) => Settled(r)') /\ (Unstarted(r) => Unstarted(r)')
    BY DEF Progress, ProgressOf, Unstarted
  <1>4. ~ Reclaiming(r)
    BY DEF AtEnd, Ending, Reclaiming, Claiming, Scanning
  <1>5. Initial(r) # Reserved(r)
    BY DirectoryFacts
  <1>6. CASE path'[d] = path[d] /\ lease'[d] = lease[d]
    <2>1. /\ path'[Initial(r)] = path[Initial(r)] /\ path'[Reserved(r)] = path[Reserved(r)]
          /\ lease'[Initial(r)] = lease[Initial(r)] /\ lease'[Reserved(r)] = lease[Reserved(r)]
      BY <1>6
    <2> QED BY <1>1, <1>2, <1>3, <1>4, <2>1 DEF NamesSound
  <1>7. CASE path'[d] = path[d] /\ lease'[d] = "none" /\ path[d].kind = "delete"
    <2>1. /\ path'[Initial(r)] = path[Initial(r)] /\ path'[Reserved(r)] = path[Reserved(r)]
          /\ lease'[Reserved(r)] = "none"
          /\ \/ lease'[Initial(r)] = lease[Initial(r)]
             \/ lease'[Initial(r)] = "none" /\ path[Initial(r)].kind = "delete"
      BY <1>1, <1>7 DEF NamesSound
    <2> QED BY <1>1, <1>2, <1>3, <1>4, <2>1 DEF NamesSound
  <1>8. CASE path'[d] = Gone /\ lease'[d] = lease[d] /\ (d = Initial(r) => Settled(r))
    <2>1. lease'[Initial(r)] = lease[Initial(r)] /\ lease'[Reserved(r)] = lease[Reserved(r)]
      BY <1>8
    <2>2. CASE d = Initial(r)
      BY <1>1, <1>2, <1>3, <1>4, <1>5, <1>8, <2>1, <2>2, GoneFacts DEF NamesSound
    <2>3. CASE d = Reserved(r)
      BY <1>1, <1>2, <1>3, <1>4, <1>5, <1>8, <2>1, <2>3, GoneFacts DEF NamesSound
    <2> QED BY <2>2, <2>3
  <1>9. CASE /\ path[d] # Gone /\ path'[d] # Gone /\ lease'[d] = lease[d]
             /\ path'[d].run = path[d].run /\ path'[d].of = path[d].of
             /\ path'[d].by \in Runs /\ at[path'[d].by] # "new"
             /\ path'[d].by = r \/ at[r] = "over"
             /\ path[d].kind # "delete" \/ path'[d].kind = "delete"
    <2>1. lease'[Initial(r)] = lease[Initial(r)] /\ lease'[Reserved(r)] = lease[Reserved(r)]
      BY <1>9
    <2>2. path'[d].by # Nobody
      BY <1>9, LeaseAssumption
    <2>3. CASE d = Initial(r)
      BY <1>1, <1>2, <1>3, <1>4, <1>5, <1>9, <2>1, <2>2, <2>3 DEF NamesSound
    <2>4. CASE d = Reserved(r)
      BY <1>1, <1>2, <1>3, <1>4, <1>5, <1>9, <2>1, <2>2, <2>4 DEF NamesSound
    <2> QED BY <2>3, <2>4
  <1> QED BY <1>6, <1>7, <1>8, <1>9

\* The entry under hand of a run that claims.
LEMMA ClaimerKnows ==
  ASSUME Typed, LeaseSound, NEW p \in Runs, at[p] \in Claiming,
         NEW e, e = entry[p], NEW r, r = e.name.run
  PROVE  /\ r \in Runs /\ e.identity \in {Initial(r), Reserved(r)} /\ e.identity \in Directories
         /\ e.name # Gone /\ Looked(p, e, r) /\ Claims(p, e, r) /\ AtEnd(r)
         /\ e.name.by \in {Nobody, p} \/ at[e.name.by] = "over"
         /\ (r = p \/ at[r] = "over") /\ (e.identity = Initial(r) => Settled(r))
  <1>1. Looked(p, e, r) /\ Claims(p, e, r)
    BY DEF LeaseSound, EntrySound
  <1>2. r = p => Ending(p)
    BY DEF Ending
  <1> QED BY <1>1, <1>2, DirectoryFacts DEF Looked, Claims, AtEnd

\* Nothing is left to claim.
LEMMA NothingLeft ==
  ASSUME Typed, LeaseSound, NEW p \in Runs, at[p] \in Claiming, Return(p),
         UNCHANGED <<path, lease, supervisor, anvil>>
  PROVE  LeaseSound'
  <1>1. PICK e, r : e = entry[p] /\ r = e.name.run
    OBVIOUS
  <1>2. PICK d : d = e.identity
    OBVIOUS
  <1>3. r \in Runs /\ d \in {Initial(r), Reserved(r)} /\ AtEnd(r) /\ (r = p \/ at[r] = "over")
    BY <1>1, <1>2, ClaimerKnows
  <1>4. /\ at'[p] = IF r = p THEN "over" ELSE "scan"
        /\ \A q \in Runs \ {p} : at'[q] = at[q] /\ entry'[q] = entry[q]
    BY <1>1 DEF Return, Goto, Typed
  <1>5. EntrySound(p)' /\ at'[p] \notin Claiming
    BY <1>4 DEF EntrySound, Scanning, Claiming
  <1>6. Progress => NamesSound(r)'
    BY <1>3, EndNames
  <1> QED BY <1>1, <1>3, <1>4, <1>5, <1>6, ClaimerStep

LEMMA ClaimKeeps ==
  ASSUME Typed, LeaseSound, NEW p \in Runs,
         NEW kind \in {"reclaim", "delete"}, NEW next \in {"confirm", "erase"},
         ClaimAs(kind, p, next), at[p] \in {"claim", "delete"},
         IF at[p] = "claim" THEN kind = "reclaim" /\ next = "confirm" ELSE kind = "delete" /\ next = "erase"
  PROVE  LeaseSound'
  <1>0. at[p] \in Claiming /\ at[p] \notin {"new", "over"}
    BY DEF Claiming
  <1>1. PICK e, r : e = entry[p] /\ r = e.name.run
    OBVIOUS
  <1>2. /\ r \in Runs /\ e.identity \in {Initial(r), Reserved(r)} /\ e.identity \in Directories
        /\ e.name # Gone /\ Looked(p, e, r) /\ Claims(p, e, r) /\ AtEnd(r)
        /\ e.name.by \in {Nobody, p} \/ at[e.name.by] = "over"
        /\ (r = p \/ at[r] = "over") /\ (e.identity = Initial(r) => Settled(r))
    BY <1>0, <1>1, ClaimerKnows
  <1>3. CASE At(e.name) = {}
    BY <1>0, <1>1, <1>3, NothingLeft DEF ClaimAs, World
  <1>4. CASE At(e.name) # {}
    <2>1. PICK claim : claim = Claim(kind, e.name, e.identity, p)
      OBVIOUS
    <2>2. PICK d \in At(e.name) :
            /\ path' = [path EXCEPT ![d] = claim]
            /\ entry' = [entry EXCEPT ![p].name = claim]
            /\ Goto(p, IF d = e.identity THEN next ELSE "over")
            /\ UNCHANGED <<lease, todo, World>>
      BY <1>1, <1>4, <2>1 DEF ClaimAs
    <2>3. claim.kind = kind /\ claim.of = e.name.of /\ claim.run = r /\ claim.by = p /\ claim # Gone
      BY <1>1, <2>1, ClaimFacts, GoneFacts
    <2>4. d \in Directories /\ path[d] = e.name
      BY <2>2 DEF At
    <2>5. d \in {Initial(r), Reserved(r)} /\ \A f \in Directories : path[f] = e.name => f = d
      BY <1>1, <1>2, <2>4, NamedIsMade
    <2>6. d = e.identity \/ (e.name = Name("run", r) /\ e.identity = Reserved(r))
      BY <1>2, <2>2 DEF Looked
    <2>7. kind = "delete" => d = e.identity
      BY <1>2, <2>6, NameFacts, LeaseAssumption DEF Claims
    <2>8. /\ at'[p] = IF d = e.identity THEN next ELSE "over"
          /\ \A q \in Runs \ {p} : at'[q] = at[q] /\ entry'[q] = entry[q]
          /\ path'[d] = claim /\ \A f \in Directories \ {d} : path'[f] = path[f] /\ lease'[f] = lease[f]
          /\ lease'[d] = lease[d] /\ UNCHANGED <<supervisor, anvil>>
      BY <2>2, <2>4 DEF Goto, World, Typed
    <2>9. entry'[p].name = claim /\ entry'[p].identity = e.identity
      <3>1. entry \in [Runs -> Entries] /\ entry[p] \in Entries
        BY DEF Typed
      <3> QED BY <1>1, <2>2, <3>1 DEF Entries
    <2>10. Renames(p, d)
      BY <1>0, <1>2, <2>3, <2>4, <2>8 DEF Renames
    <2>11. Progress => NamesSound(r)'
      <3>1. SUFFICES ASSUME Progress
                     PROVE  NamesSound(r)'
        OBVIOUS
      <3>2. \A f \in {Initial(r), Reserved(r)} : f # d => path'[f] = path[f] /\ lease'[f] = lease[f]
        BY <1>2, <2>8, DirectoryFacts
      <3>3. d = Initial(r) /\ path'[d].kind = "delete" => Settled(r)
        BY <1>2, <2>3, <2>7, <2>8
      <3>4. path[d].kind # "delete" \/ path'[d].kind = "delete"
        BY <1>2, <2>3, <2>4, <2>8 DEF Claims
      <3>5. /\ path[d] # Gone /\ path'[d] # Gone /\ path'[d].run = path[d].run /\ path'[d].of = path[d].of
            /\ path'[d].by \in Runs /\ at[path'[d].by] # "new" /\ (path'[d].by = r \/ at[r] = "over")
        BY <1>0, <1>1, <1>2, <2>3, <2>4, <2>8
      <3> QED BY <1>2, <2>5, <2>8, <3>1, <3>2, <3>3, <3>4, <3>5, EndNames
    <2>12. EntrySound(p)'
      <3>1. CASE d # e.identity
        BY <2>8, <3>1 DEF EntrySound, Scanning, Claiming
      <3>2. CASE d = e.identity
        <4>1. PICK new : new = entry'[p]
          OBVIOUS
        <4>2. new.name = claim /\ new.identity = d /\ at'[p] = next /\ path'[d] = claim
          BY <2>8, <2>9, <3>2, <4>1
        <4>3. (r = p \/ at'[r] = "over") /\ at'[r] \notin {"publish", "reserve"}
          BY <1>2, <2>8, <4>2
        <4>4. ~ Reclaiming(r)'
          BY <2>3, <4>1, <4>2, <4>3 DEF Reclaiming, Scanning, Claiming
        <4>5. d = Initial(r) => Settled(r)'
          <5>1. d = Initial(r) => Settled(r)
            BY <1>2, <3>2
          <5>2. at'[r] = "over" \/ Ending(r)'
            BY <2>3, <4>1, <4>2, <4>3 DEF Ending, Claiming
          <5> QED BY <2>8, <5>1, <5>2 DEF Settled
        <4>6. ASSUME NEW f \in Directories, path'[f] = claim
              PROVE  f = d
          <5>1. CASE f # d
            <6>1. path[f] = claim
              BY <2>8, <4>6, <5>1
            <6>2. f \in {Initial(r), Reserved(r)} /\ path[f].of = path[d].of
              BY <2>3, <2>4, <6>1, NamedIsMade
            <6> QED BY <1>2, <2>4, <2>5, <4>6, <5>1, <6>1, <6>2, <2>3 DEF LeaseSound, NamesSound
          <5> QED BY <5>1
        <4>7. Looked(p, new, r)'
          BY <1>2, <2>3, <2>5, <4>2, <4>3, <4>4, <4>6 DEF Looked, At
        <4>8. Claims(p, new, r)'
          BY <2>3, <4>2, <4>3, <4>5 DEF Claims
        <4> QED BY <2>3, <4>1, <4>2, <4>7, <4>8 DEF EntrySound, Scanning, Claiming
      <3> QED BY <3>1, <3>2
    <2>13. at'[p] \in {"scan", "over"} \cup Claiming /\ at'[p] # "scan" /\ entry'[p].name.run = r
      BY <2>3, <2>8, <2>9 DEF Claiming
    <2> QED BY <1>0, <1>1, <1>2, <2>5, <2>8, <2>10, <2>11, <2>12, <2>13, ClaimerStep
  <1> QED BY <1>3, <1>4

LEMMA ConfirmKeeps ==
  ASSUME Typed, LeaseSound, NEW p \in Runs, Confirm(p)
  PROVE  LeaseSound'
  <1>1. CASE Throw(p)
    BY <1>1, ThrowKeeps
  <1>2. CASE Goto(p, "delete") /\ UNCHANGED <<path, lease, todo, entry, World>>
    <2>1. PICK e, r, d : e = entry[p] /\ r = e.name.run /\ d = e.identity
      OBVIOUS
    <2>2. at[p] = "confirm" /\ at[p] \in Claiming
      BY DEF Confirm, Claiming
    <2>3. /\ r \in Runs /\ d \in {Initial(r), Reserved(r)} /\ Looked(p, e, r) /\ Claims(p, e, r)
          /\ AtEnd(r) /\ (r = p \/ at[r] = "over") /\ (d = Initial(r) => Settled(r))
      BY <2>1, <2>2, ClaimerKnows
    <2>4. at'[p] = "delete" /\ \A q \in Runs \ {p} : at'[q] = at[q]
      BY <1>2 DEF Goto, Typed
    <2>5. entry' = entry /\ path' = path /\ lease' = lease /\ UNCHANGED <<supervisor, anvil>>
      BY <1>2 DEF World
    <2>6. (r = p \/ at'[r] = "over") /\ at'[r] \notin {"publish", "reserve"} /\ (d = Initial(r) => Settled(r)')
      BY <2>1, <2>2, <2>3, <2>4, <2>5 DEF Settled, Ending, Claiming
    <2>7. ~ Reclaiming(r)'
      BY <2>1, <2>4, <2>5, <2>6 DEF Reclaiming, Scanning, Claiming
    <2>8. e.name.by = p
      BY <2>2, <2>3 DEF Claims
    <2>9. Looked(p, e, r)'
      BY <2>3, <2>5, <2>6, <2>7, <2>8 DEF Looked, At
    <2>10. Claims(p, e, r)'
      BY <2>1, <2>3, <2>4, <2>5, <2>6, <2>8 DEF Claims
    <2>11. EntrySound(p)'
      BY <2>1, <2>4, <2>5, <2>9, <2>10 DEF EntrySound, Scanning
    <2>12. Progress => NamesSound(r)'
      BY <2>3, <2>5, EndNames
    <2>13. at'[p] \in {"scan", "over"} \cup Claiming /\ at'[p] # "scan" /\ entry'[p].name.run = r
      BY <2>1, <2>4, <2>5 DEF Claiming
    <2> QED BY <2>1, <2>2, <2>3, <2>4, <2>5, <2>11, <2>12, <2>13, ClaimerStep
  <1> QED BY <1>1, <1>2 DEF Confirm

\* The directory that is deleted is the one that was looked at.
LEMMA DeletedIsClaimed ==
  ASSUME Typed, LeaseSound, NEW p \in Runs, at[p] \in {"erase", "remove"},
         NEW e, e = entry[p]
  PROVE  /\ \A f \in Directories : f \in At(e.name) <=> f = e.identity
         /\ path[e.identity] = e.name /\ e.name.by = p /\ e.name.kind = "delete"
  <1>1. PICK r : r = e.name.run
    OBVIOUS
  <1>2. at[p] \in Claiming
    BY DEF Claiming
  <1>3. e.identity \in Directories /\ Looked(p, e, r) /\ Claims(p, e, r)
    BY <1>1, <1>2, ClaimerKnows
  <1>4. path[e.identity] = e.name /\ e.name.by = p /\ e.name.kind = "delete"
    BY <1>3 DEF Claims
  <1>5. e.name # Name("run", r)
    BY <1>4, NameFacts
  <1> QED BY <1>3, <1>4, <1>5 DEF Looked, At

LEMMA EraseKeeps ==
  ASSUME Typed, LeaseSound, NEW p \in Runs, Erase(p)
  PROVE  LeaseSound'
  <1>1. PICK e, r, d : e = entry[p] /\ r = e.name.run /\ d = e.identity
    OBVIOUS
  <1>2. at[p] = "erase" /\ at[p] \in Claiming
    BY DEF Erase, Claiming
  <1>3. /\ r \in Runs /\ d \in {Initial(r), Reserved(r)} /\ d \in Directories
        /\ Looked(p, e, r) /\ Claims(p, e, r)
        /\ AtEnd(r) /\ (r = p \/ at[r] = "over") /\ (d = Initial(r) => Settled(r))
    BY <1>1, <1>2, ClaimerKnows
  <1>4. /\ at'[p] = "remove" /\ \A q \in Runs \ {p} : at'[q] = at[q]
        /\ entry' = entry /\ path' = path /\ UNCHANGED <<supervisor, anvil>>
    BY DEF Erase, Goto, World, Typed
  <1>5. /\ path[d] = e.name /\ e.name.by = p /\ e.name.kind = "delete"
        /\ \A f \in Directories : f \in At(e.name) <=> f = d
    BY <1>1, <1>2, DeletedIsClaimed
  <1>6. lease'[d] = "none" /\ \A f \in Directories \ {d} : lease'[f] = lease[f]
    BY <1>1, <1>3, <1>5 DEF Erase
  <1>7. (r = p \/ at'[r] = "over") /\ at'[r] \notin {"publish", "reserve"} /\ (d = Initial(r) => Settled(r)')
    BY <1>1, <1>2, <1>3, <1>4 DEF Settled, Ending, Claiming
  <1>8. ~ Reclaiming(r)'
    BY <1>1, <1>4, <1>7 DEF Reclaiming, Scanning, Claiming
  <1>9. Looked(p, e, r)'
    BY <1>3, <1>4, <1>5, <1>7, <1>8 DEF Looked, At
  <1>10. Claims(p, e, r)'
    BY <1>1, <1>3, <1>4, <1>5, <1>7 DEF Claims
  <1>11. EntrySound(p)'
    BY <1>1, <1>4, <1>9, <1>10 DEF EntrySound, Scanning
  <1>12. Progress => NamesSound(r)'
    <2>1. \A f \in {Initial(r), Reserved(r)} : f # d => path'[f] = path[f] /\ lease'[f] = lease[f]
      BY <1>3, <1>4, <1>6, DirectoryFacts
    <2> QED BY <1>3, <1>4, <1>5, <1>6, <2>1, EndNames
  <1>13. at'[p] \in {"scan", "over"} \cup Claiming /\ at'[p] # "scan" /\ entry'[p].name.run = r
    BY <1>1, <1>4 DEF Claiming
  <1> QED BY <1>1, <1>2, <1>3, <1>4, <1>6, <1>11, <1>12, <1>13, ClaimerStep

LEMMA RemoveKeeps ==
  ASSUME Typed, LeaseSound, NEW p \in Runs, Remove(p)
  PROVE  LeaseSound'
  <1>1. PICK e, r, d : e = entry[p] /\ r = e.name.run /\ d = e.identity
    OBVIOUS
  <1>2. at[p] = "remove" /\ at[p] \in Claiming
    BY DEF Remove, Claiming
  <1>3. /\ r \in Runs /\ d \in {Initial(r), Reserved(r)} /\ d \in Directories
        /\ AtEnd(r) /\ (r = p \/ at[r] = "over") /\ (d = Initial(r) => Settled(r))
    BY <1>1, <1>2, ClaimerKnows
  <1>4. /\ at'[p] = IF r = p THEN "over" ELSE "scan"
        /\ \A q \in Runs \ {p} : at'[q] = at[q] /\ entry'[q] = entry[q]
        /\ lease' = lease /\ UNCHANGED <<supervisor, anvil>>
    BY <1>1 DEF Remove, Return, Goto, World, Typed
  <1>5. /\ path[d] = e.name /\ e.name.by = p
        /\ \A f \in Directories : f \in At(e.name) <=> f = d
    BY <1>1, <1>2, DeletedIsClaimed
  <1>6. path'[d] = Gone /\ \A f \in Directories \ {d} : path'[f] = path[f]
    BY <1>1, <1>3, <1>5 DEF Remove
  <1>7. EntrySound(p)' /\ at'[p] \notin Claiming
    BY <1>4 DEF EntrySound, Scanning, Claiming
  <1>8. Renames(p, d)
    BY <1>5, <1>6 DEF Renames
  <1>9. Progress => NamesSound(r)'
    <2>1. \A f \in {Initial(r), Reserved(r)} : f # d => path'[f] = path[f] /\ lease'[f] = lease[f]
      BY <1>3, <1>4, <1>6, DirectoryFacts
    <2>2. path'[d].kind # "delete"
      BY <1>6, GoneFacts
    <2> QED BY <1>3, <1>4, <1>6, <2>1, <2>2, EndNames
  <1> QED BY <1>1, <1>2, <1>3, <1>4, <1>6, <1>7, <1>8, <1>9, ClaimerStep

LEMMA ReclaimKeeps ==
  ASSUME Typed, LeaseSound, NEW p \in Runs, Reclaim(p)
  PROVE  LeaseSound'
  <1>1. CASE ClaimDirectory(p)
    BY <1>1, ClaimKeeps DEF ClaimDirectory
  <1>2. CASE DeleteClaim(p)
    BY <1>2, ClaimKeeps DEF DeleteClaim
  <1> QED BY <1>1, <1>2, ListKeeps, InspectKeeps, ReadLeaseKeeps, AuthenticateKeeps, ConfirmKeeps,
             EraseKeeps, RemoveKeeps DEF Reclaim

----------------------------------------------------------------------------
(* A run's own directory.                                                  *)

\* p goes on with what is its own.
LEMMA MakerStep ==
  ASSUME LeaseSound, NEW p \in Runs, at[p] \in {"scan"} \cup Creating \cup Holding,
         at'[p] \in Creating \cup Holding,
         at[p] \in {"promote"} \cup Holding => at'[p] \in Holding,
         supervisor[p] \notin {"none", "started"} => supervisor'[p] \notin {"none", "started"},
         \A q \in Runs \ {p} : Stands(q),
         \A d \in Directories \ {Initial(p), Reserved(p)} : path'[d] = path[d] /\ lease'[d] = lease[d],
         \A d \in {Initial(p), Reserved(p)} : path'[d] = path[d] \/ Renames(p, d),
         NamesSound(p)', RunSound(p)'
  PROVE  LeaseSound'
  <1>1. /\ at[p] \notin {"new", "over"} \cup Claiming
        /\ at'[p] \notin {"new", "over", "scan"} \cup Claiming \cup Scanning
    BY DEF Creating, Holding, Claiming, Scanning
  <1>2. ~ AtEnd(p) /\ ~ Settled(p) /\ ~ Reclaiming(p)' /\ EntrySound(p)'
    BY <1>1 DEF AtEnd, Settled, Ending, Reclaiming, EntrySound
  <1>3. ~ Reclaiming(p) /\ at[p] \notin {"publish", "reserve"} => at'[p] \notin {"publish", "reserve"}
    BY DEF Reclaiming, Creating, Holding
  <1>4. ProgressOf(p)
    BY <1>1, <1>2, <1>3 DEF ProgressOf
  <1>5. \A q \in Runs \ {p} : Untouched(q)
    BY DirectoryFacts DEF Untouched
  <1>6. \A d \in Directories : path'[d] = path[d] \/ Renames(p, d)
    OBVIOUS
  <1> QED BY <1>2, <1>4, <1>5, <1>6, OwnStep

LEMMA CreateKeeps ==
  ASSUME Typed, LeaseSound, NEW p \in Runs, Create(p)
  PROVE  LeaseSound'
  <1>1. /\ at[p] = "scan" /\ at'[p] = "publish" /\ \A q \in Runs \ {p} : Stands(q)
        /\ path' = [path EXCEPT ![Initial(p)] = Name("initialize", p)]
        /\ lease' = lease /\ supervisor' = supervisor /\ anvil' = anvil
    BY DEF Create, Goto, Steps, World, Stands, Typed
  <1>2. Reclaiming(p) /\ path[Initial(p)] = Gone /\ path[Reserved(p)] = Gone /\ Unstarted(p) /\ Unstarted(p)'
    BY <1>1 DEF LeaseSound, RunSound, Reclaiming, Unstarted
  <1>3. /\ path'[Initial(p)] = Name("initialize", p) /\ path'[Reserved(p)] = Gone
        /\ \A d \in Directories \ {Initial(p)} : path'[d] = path[d]
    BY <1>1, <1>2, DirectoryFacts DEF Typed
  <1>4. Renames(p, Initial(p))
    BY <1>2, <1>3, GoneFacts DEF Renames
  <1>5. NamesSound(p)'
    <2>1. NamesSound(p)
      BY DEF LeaseSound
    <2>2. Name("initialize", p) # Gone
      BY NameFacts, GoneFacts
    <2> QED BY <1>1, <1>2, <1>3, <2>1, <2>2, NameFacts, GoneFacts DEF NamesSound
  <1>6. RunSound(p)'
    BY <1>1, <1>2, <1>3 DEF RunSound, Reclaiming, Ending, Scanning, Claiming, Creating, Holding
  <1>7. at[p] \in {"scan"} \cup Creating \cup Holding /\ at'[p] \in Creating \cup Holding
    BY <1>1 DEF Creating
  <1>8. at[p] \notin {"promote"} \cup Holding
    BY <1>1 DEF Holding
  <1>9. \A d \in {Initial(p), Reserved(p)} : path'[d] = path[d] \/ Renames(p, d)
    BY <1>2, <1>3, <1>4
  <1> QED BY <1>1, <1>3, <1>5, <1>6, <1>7, <1>8, <1>9, MakerStep

\* What a run that makes its directory has.
LEMMA MakerHas ==
  ASSUME LeaseSound, NEW p \in Runs, at[p] \in Creating
  PROVE  /\ NamesSound(p) /\ path[Initial(p)] = Name("initialize", p) /\ Unstarted(p)
         /\ at[p] # "publish" => lease[Initial(p)] # "none"
         /\ path[Reserved(p)] = IF at[p] = "promote" THEN Name("run", p) ELSE Gone
  BY DEF LeaseSound, RunSound

LEMMA PublishKeeps ==
  ASSUME Typed, LeaseSound, NEW p \in Runs, Publish(p)
  PROVE  LeaseSound'
  <1>1. CASE Throw(p)
    BY <1>1, ThrowKeeps
  <1>2. CASE ~ Throw(p)
    <2>1. /\ at[p] = "publish" /\ lease' = [lease EXCEPT ![Initial(p)] = "null"] /\ Goto(p, "reserve")
          /\ UNCHANGED <<path, todo, entry, World>>
      BY <1>2 DEF Publish
    <2>2. /\ at'[p] = "reserve" /\ \A q \in Runs \ {p} : Stands(q)
          /\ path' = path /\ supervisor' = supervisor /\ anvil' = anvil
      BY <2>1 DEF Goto, World, Stands, Typed
    <2>3. lease'[Initial(p)] = "null" /\ \A d \in Directories \ {Initial(p)} : lease'[d] = lease[d]
      BY <2>1, DirectoryFacts DEF Typed
    <2>4. at[p] \in Creating /\ at'[p] \in Creating \cup Holding /\ at[p] \notin {"promote"} \cup Holding
      BY <2>1, <2>2 DEF Creating, Holding
    <2>5. /\ NamesSound(p) /\ path[Initial(p)] = Name("initialize", p) /\ Unstarted(p)
          /\ path[Reserved(p)] = Gone /\ lease'[Reserved(p)] = lease[Reserved(p)]
      BY <2>1, <2>3, <2>4, MakerHas, DirectoryFacts
    <2>6. Unstarted(p)'
      BY <2>2, <2>5 DEF Unstarted
    <2>7. NamesSound(p)'
      BY <2>2, <2>3, <2>5, <2>6, NameFacts, GoneFacts DEF NamesSound
    <2>8. RunSound(p)'
      BY <2>2, <2>3, <2>5, <2>6 DEF RunSound, Reclaiming, Ending, Scanning, Claiming, Creating, Holding
    <2> QED BY <2>2, <2>3, <2>4, <2>7, <2>8, MakerStep
  <1> QED BY <1>1, <1>2

LEMMA ReserveKeeps ==
  ASSUME Typed, LeaseSound, NEW p \in Runs, Reserve(p)
  PROVE  LeaseSound'
  <1>1. CASE Throw(p)
    BY <1>1, ThrowKeeps
  <1>2. CASE ~ Throw(p)
    <2>1. /\ at[p] = "reserve" /\ path' = [path EXCEPT ![Reserved(p)] = Name("run", p)]
          /\ Goto(p, "promote") /\ UNCHANGED Steps
      BY <1>2 DEF Reserve
    <2>2. /\ at'[p] = "promote" /\ \A q \in Runs \ {p} : Stands(q)
          /\ lease' = lease /\ supervisor' = supervisor /\ anvil' = anvil
      BY <2>1 DEF Goto, Steps, World, Stands, Typed
    <2>3. path'[Reserved(p)] = Name("run", p) /\ \A d \in Directories \ {Reserved(p)} : path'[d] = path[d]
      BY <2>1, DirectoryFacts, NamesTyped DEF Typed
    <2>4. at[p] \in Creating /\ at'[p] \in Creating \cup Holding /\ at[p] \notin {"promote"} \cup Holding
      BY <2>1, <2>2 DEF Creating, Holding
    <2>5. /\ NamesSound(p) /\ path[Initial(p)] = Name("initialize", p) /\ Unstarted(p)
          /\ path[Reserved(p)] = Gone /\ path'[Initial(p)] = path[Initial(p)] /\ lease[Initial(p)] # "none"
      BY <2>1, <2>3, <2>4, MakerHas, DirectoryFacts
    <2>6. Unstarted(p)' /\ Name("initialize", p) # Gone /\ Name("run", p) # Gone
      BY <2>2, <2>5, NameFacts, GoneFacts DEF Unstarted
    <2>7. NamesSound(p)'
      BY <2>2, <2>3, <2>5, <2>6, NameFacts DEF NamesSound
    <2>8. RunSound(p)'
      BY <2>2, <2>3, <2>5, <2>6 DEF RunSound, Reclaiming, Ending, Scanning, Claiming, Creating, Holding
    <2>9. Renames(p, Reserved(p))
      BY <2>1, <2>3, <2>5, GoneFacts DEF Renames
    <2> QED BY <2>2, <2>3, <2>4, <2>5, <2>7, <2>8, <2>9, MakerStep
  <1> QED BY <1>1, <1>2

LEMMA PromoteKeeps ==
  ASSUME Typed, LeaseSound, NEW p \in Runs, Promote(p)
  PROVE  LeaseSound'
  <1>1. CASE Throw(p)
    BY <1>1, ThrowKeeps
  <1>2. CASE ~ Throw(p)
    <2>1. /\ at[p] = "promote" /\ path' = [path EXCEPT ![Initial(p)] = Name("run", p), ![Reserved(p)] = Gone]
          /\ Goto(p, "prepare") /\ UNCHANGED Steps
      BY <1>2 DEF Promote
    <2>2. /\ at'[p] = "prepare" /\ \A q \in Runs \ {p} : Stands(q)
          /\ lease' = lease /\ supervisor' = supervisor /\ anvil' = anvil
      BY <2>1 DEF Goto, Steps, World, Stands, Typed
    <2>3. /\ path'[Initial(p)] = Name("run", p) /\ path'[Reserved(p)] = Gone
          /\ \A d \in Directories \ {Initial(p), Reserved(p)} : path'[d] = path[d]
      <3>1. Initial(p) # Reserved(p) /\ Initial(p) \in Directories /\ Reserved(p) \in Directories
        BY DirectoryFacts
      <3> QED BY <2>1, <3>1 DEF Typed
    <2>4. at[p] \in Creating /\ at'[p] \in Holding
      BY <2>1, <2>2 DEF Creating, Holding
    <2>5. /\ NamesSound(p) /\ path[Initial(p)] = Name("initialize", p) /\ Unstarted(p)
          /\ path[Reserved(p)] = Name("run", p) /\ lease[Initial(p)] # "none"
      BY <2>1, <2>4, MakerHas
    <2>6. Unstarted(p)' /\ Name("run", p) # Gone
      BY <2>2, <2>5, NameFacts, GoneFacts DEF Unstarted
    <2>7. NamesSound(p)'
      BY <2>2, <2>3, <2>5, <2>6, NameFacts, GoneFacts DEF NamesSound
    <2>8. RunSound(p)'
      BY <2>2, <2>3, <2>6 DEF RunSound, Reclaiming, Ending, Scanning, Claiming, Creating, Holding
    <2>9. Renames(p, Initial(p)) /\ Renames(p, Reserved(p))
      BY <2>1, <2>3, <2>5, NameFacts DEF Renames
    <2> QED BY <2>2, <2>3, <2>4, <2>7, <2>8, <2>9, MakerStep
  <1> QED BY <1>1, <1>2

\* A run that has its directory goes on.
LEMMA HolderStep ==
  ASSUME Typed, LeaseSound, NEW p \in Runs, at[p] \in Holding, NEW await \in Holding, Goto(p, await),
         UNCHANGED <<path, lease, entry, anvil>>,
         \A q \in Runs \ {p} : supervisor'[q] = supervisor[q],
         supervisor[p] \notin {"none", "started"} => supervisor'[p] \notin {"none", "started"},
         await # "prepare",
         await = "remove-own" => supervisor'[p] \in {"none", "exited"} /\ anvil[p] # "alive"
  PROVE  LeaseSound'
  <1>1. at'[p] = await /\ \A q \in Runs \ {p} : Stands(q)
    BY DEF Goto, Typed, Stands
  <1>2. NamesSound(p) /\ path[Initial(p)] = Name("run", p) /\ path[Reserved(p)] = Gone
    BY DEF LeaseSound, RunSound
  <1>3. NamesSound(p)'
    <2>1. Name("run", p) # Gone
      BY NameFacts, GoneFacts
    <2> QED BY <1>2, <2>1, NameFacts, GoneFacts DEF NamesSound
  <1>4. RunSound(p)'
    <2>1. ~ Reclaiming(p)' /\ ~ Ending(p)' /\ at'[p] \notin Creating
      BY <1>1 DEF Reclaiming, Ending, Scanning, Claiming, Creating, Holding
    <2> QED BY <1>1, <1>2, <2>1 DEF RunSound
  <1> QED BY <1>1, <1>3, <1>4, MakerStep

LEMMA HoldKeeps ==
  ASSUME Typed, LeaseSound, NEW p \in Runs,
         FailToPrepare(p) \/ StartSupervisor(p) \/ ConfirmRegistration(p) \/ Stop(p) \/ StopTimesOut(p)
         \/ FinishStopping(p)
  PROVE  LeaseSound'
  <1> USE DEF Holding
  <1>1. CASE FailToPrepare(p)
    <2>1. Unstarted(p)
      BY <1>1 DEF FailToPrepare, LeaseSound, RunSound
    <2> QED BY <1>1, <2>1, HolderStep DEF FailToPrepare, Steps, World, Unstarted
  <1>2. CASE StartSupervisor(p)
    <2>1. Unstarted(p)
      BY <1>2 DEF StartSupervisor, LeaseSound, RunSound
    <2>2. \A q \in Runs \ {p} : supervisor'[q] = supervisor[q]
      BY <1>2 DEF StartSupervisor, Typed
    <2> QED BY <1>2, <2>1, <2>2, HolderStep DEF StartSupervisor, Unstarted
  <1>3. CASE ConfirmRegistration(p) \/ Stop(p)
    BY <1>3, HolderStep DEF ConfirmRegistration, Stop, Steps, World
  <1>4. CASE StopTimesOut(p)
    <2>1. Goto(p, "stopping")
      BY <1>4 DEF StopTimesOut, Goto, Typed
    <2>2. supervisor'[p] = "failed" /\ \A q \in Runs \ {p} : supervisor'[q] = supervisor[q]
      BY <1>4 DEF StopTimesOut, Typed
    <2>3. at[p] = "stopping" /\ UNCHANGED <<path, lease, entry, anvil>>
      BY <1>4 DEF StopTimesOut
    <2> QED BY <2>1, <2>2, <2>3, HolderStep
  <1>5. CASE FinishStopping(p)
    <2>1. at[p] = "stopping" /\ UNCHANGED <<path, lease, entry, supervisor, anvil>>
      BY <1>5 DEF FinishStopping, Steps, World
    <2>2. CASE StopIsConfirmed(p)
      BY <1>5, <2>1, <2>2, HolderStep DEF FinishStopping, StopIsConfirmed
    <2>3. CASE ~ StopIsConfirmed(p)
      BY <1>5, <2>1, <2>3, OverStep DEF FinishStopping
    <2> QED BY <2>2, <2>3
  <1> QED BY <1>1, <1>2, <1>3, <1>4, <1>5

LEMMA LookAtOwnKeeps ==
  ASSUME Typed, LeaseSound, NEW p \in Runs, LookAtOwn(p)
  PROVE  LeaseSound'
  <1>1. CASE Throw(p)
    BY <1>1, ThrowKeeps
  <1>2. CASE ~ Throw(p)
    <2>1. PICK name : name = Name("run", p)
      OBVIOUS
    <2>2. PICK d \in At(name) :
            /\ entry' = [entry EXCEPT ![p] = [name |-> name, identity |-> d, lease |-> lease[d]]]
            /\ Goto(p, "claim") /\ UNCHANGED <<path, lease, todo, World>>
      BY <1>2, <2>1 DEF LookAtOwn
    <2>3. PICK e : e = [name |-> name, identity |-> d, lease |-> lease[d]]
      OBVIOUS
    <2>4. /\ entry'[p] = e /\ e.name = name /\ e.identity = d /\ at'[p] = "claim"
          /\ \A q \in Runs \ {p} : Stands(q) /\ Untouched(q)
          /\ path' = path /\ lease' = lease /\ supervisor' = supervisor /\ anvil' = anvil
      BY <2>2, <2>3 DEF Goto, World, Typed, Stands, Untouched
    <2>5. /\ at[p] = "remove-own" /\ supervisor[p] \in {"none", "exited"} /\ anvil[p] # "alive"
          /\ NamesSound(p) /\ path[Initial(p)] = name /\ path[Reserved(p)] = Gone
      BY <2>1 DEF LookAtOwn, LeaseSound, RunSound, Holding
    <2>6. name.run = p /\ name.by = Nobody /\ name.kind = "run" /\ name.of = "run" /\ name # Gone
      BY <2>1, NameFacts, GoneFacts
    <2>7. /\ d \in Directories /\ d = Initial(p)
          /\ \A f \in Directories : path[f] = name => f = d
      <3>1. /\ path[Initial(p)] # Gone /\ path[d] = path[Initial(p)]
            /\ Initial(p) \in Directories /\ d \in Directories
        BY <2>2, <2>5, <2>6, DirectoryFacts DEF At
      <3> QED BY <2>5, <3>1, NamedIsMade
    <2>8. Ending(p)' /\ ~ Reclaiming(p)' /\ ~ AtEnd(p) /\ ~ Settled(p) /\ Settled(p)'
      BY <2>4, <2>5, <2>6 DEF Ending, Reclaiming, AtEnd, Settled, Claiming, Scanning
    <2>9. ProgressOf(p)
      BY <2>4, <2>5, <2>8 DEF ProgressOf
    <2>10. NamesSound(p)'
      <3>1. Unstarted(p)' <=> Unstarted(p)
        BY <2>4 DEF Unstarted
      <3>2. \A q \in Runs : at[q] # "new" => at'[q] # "new"
        BY <2>4 DEF Stands
      <3> QED BY <2>4, <2>5, <2>6, <2>8, <3>1, <3>2, GoneFacts DEF NamesSound
    <2>11. RunSound(p)'
      BY <2>4, <2>8 DEF RunSound, Creating, Holding
    <2>12. Looked(p, e, p)'
      BY <2>4, <2>6, <2>7, <2>8 DEF Looked, At
    <2>13. Claims(p, e, p)'
      BY <2>4, <2>6, <2>8, LeaseAssumption DEF Claims
    <2>14. EntrySound(p)'
      BY <2>4, <2>6, <2>12, <2>13 DEF EntrySound, Scanning
    <2> QED BY <2>4, <2>9, <2>10, <2>11, <2>14, OwnStep
  <1> QED BY <1>1, <1>2

LEMMA RunKeeps ==
  ASSUME Typed, LeaseSound, NEW p \in Runs, Run(p)
  PROVE  LeaseSound'
  BY CreateKeeps, PublishKeeps, ReserveKeeps, PromoteKeeps, HoldKeeps, LookAtOwnKeeps DEF Run

----------------------------------------------------------------------------
(* The supervisor and its Anvil.                                           *)

LEMMA SuperviseStep ==
  ASSUME Typed, LeaseSound, NEW p \in Runs, UNCHANGED <<path, at, entry>>,
         \A q \in Runs \ {p} : supervisor'[q] = supervisor[q] /\ anvil'[q] = anvil[q],
         \/ /\ supervisor[p] \notin {"none", "exited", "failed"} /\ supervisor'[p] \notin {"none", "started"}
            /\ anvil'[p] = "alive" => anvil[p] = "alive" \/ supervisor[p] = "started"
         \/ supervisor'[p] = supervisor[p] /\ anvil[p] = "alive" /\ anvil'[p] = "stopped",
         \A d \in Directories \ {Initial(p)} : lease'[d] = lease[d],
         \/ lease'[Initial(p)] = lease[Initial(p)]
         \/ lease'[Initial(p)] = "registered" /\ supervisor'[p] \notin {"none", "started"}
  PROVE  LeaseSound'
  <1>1. NamesSound(p) /\ RunSound(p) /\ EntrySound(p)
    BY DEF LeaseSound
  <1>2. ~ Unstarted(p)
    BY DEF Unstarted
  <1>3. /\ ~ Reclaiming(p) /\ at[p] \notin Creating /\ at[p] # "prepare" /\ at[p] # "remove-own"
        /\ path[Initial(p)].of # "initialize"
    BY <1>1, <1>2 DEF RunSound, NamesSound
  <1>4. \A r \in Runs : (Ending(r)' <=> Ending(r)) /\ (Reclaiming(r)' <=> Reclaiming(r))
    BY DEF Ending, Reclaiming
  <1>5. /\ Settled(p) => Settled(p)'
        /\ supervisor[p] \notin {"none", "started"} => supervisor'[p] \notin {"none", "started"}
    BY <1>4 DEF Settled
  <1>6. ProgressOf(p)
    BY <1>4, <1>5 DEF ProgressOf, AtEnd
  <1>7. \A q \in Runs \ {p} : Stands(q) /\ Untouched(q)
    BY DirectoryFacts DEF Stands, Untouched
  <1>8. NamesSound(p)'
    <2>1. lease'[Reserved(p)] = lease[Reserved(p)]
      BY DirectoryFacts
    <2> QED BY <1>1, <1>3, <1>4, <1>5, <2>1 DEF NamesSound
  <1>9. RunSound(p)'
    BY <1>1, <1>3, <1>4, <1>5 DEF RunSound
  <1>10. EntrySound(p)'
    <2>1. Progress
      BY <1>6, <1>7, StandingProgress DEF Progress
    <2>2. PICK e, r : e = entry[p] /\ r = e.name.run
      OBVIOUS
    <2>3. Looked(p, e, r) => Looked(p, e, r)' /\ r \in Runs
      BY <1>4 DEF Looked, At
    <2>4. Read(p, e, r) /\ r \in Runs => Read(p, e, r)'
      BY <2>1 DEF Read, Progress, ProgressOf
    <2>5. Claims(p, e, r) /\ r \in Runs => Claims(p, e, r)'
      BY <2>1 DEF Claims, Progress, ProgressOf
    <2> QED BY <1>1, <2>2, <2>3, <2>4, <2>5 DEF EntrySound
  <1> QED BY <1>6, <1>7, <1>8, <1>9, <1>10, OwnStep

LEMMA SuperviseKeeps ==
  ASSUME Typed, LeaseSound, NEW p \in Runs, Supervise(p)
  PROVE  LeaseSound'
  <1>1. CASE SpawnAnvil(p) \/ StopChild(p) \/ AnvilExits(p)
    <2>1. /\ UNCHANGED <<path, at, entry, lease>>
          /\ \A q \in Runs \ {p} : supervisor'[q] = supervisor[q] /\ anvil'[q] = anvil[q]
      BY <1>1 DEF SpawnAnvil, StopChild, AnvilExits, Rest, Typed
    <2>2. \/ /\ supervisor[p] \notin {"none", "exited", "failed"} /\ supervisor'[p] \notin {"none", "started"}
             /\ anvil'[p] = "alive" => anvil[p] = "alive" \/ supervisor[p] = "started"
          \/ supervisor'[p] = supervisor[p] /\ anvil[p] = "alive" /\ anvil'[p] = "stopped"
      BY <1>1 DEF SpawnAnvil, StopChild, AnvilExits, Typed
    <2> QED BY <2>1, <2>2, SuperviseStep
  <1>2. CASE ReadToRegister(p) \/ Terminate(p) \/ Fail(p) \/ ChildDoesNotClose(p)
    <2>1. /\ UNCHANGED <<path, at, entry, lease, anvil>>
          /\ \A q \in Runs \ {p} : supervisor'[q] = supervisor[q]
      BY <1>2 DEF ReadToRegister, Terminate, Fail, ChildDoesNotClose, Rest, Typed
    <2>2. supervisor[p] \notin {"none", "exited", "failed"} /\ supervisor'[p] \notin {"none", "started"}
      BY <1>2 DEF ReadToRegister, Terminate, Fail, ChildDoesNotClose, Typed
    <2> QED BY <2>1, <2>2, SuperviseStep
  <1>3. CASE Register(p)
    <2>1. /\ UNCHANGED <<path, at, entry, anvil>>
          /\ \A q \in Runs \ {p} : supervisor'[q] = supervisor[q]
      BY <1>3 DEF Register, Rest, Typed
    <2>2. supervisor[p] \notin {"none", "exited", "failed"} /\ supervisor'[p] \notin {"none", "started"}
      BY <1>3 DEF Register, Typed
    <2>3. \A d \in Unregistered(p) : d = Initial(p)
      <3>1. \A d \in Unregistered(p) : d \in Directories /\ path[d] = Name("run", p) /\ lease[d] = "null"
        BY DEF Unregistered, At
      <3>2. \A d \in Unregistered(p) : d \in {Initial(p), Reserved(p)}
        BY <3>1, NamedIsMade, NameFacts, GoneFacts
      <3>3. lease[Reserved(p)] = "none"
        BY DEF LeaseSound, NamesSound
      <3> QED BY <3>1, <3>2, <3>3
    <2>4. \A d \in Directories : lease'[d] = lease[d] \/ (d = Initial(p) /\ lease'[d] = "registered")
      BY <1>3, <2>3 DEF Register, Typed
    <2>5. Initial(p) \in Directories
      BY DirectoryFacts
    <2> QED BY <2>1, <2>2, <2>4, <2>5, SuperviseStep
  <1> QED BY <1>1, <1>2, <1>3 DEF Supervise

LEMMA KillKeeps ==
  ASSUME Typed, LeaseSound, NEW p \in Runs, Kill(p)
  PROVE  LeaseSound'
  <1>1. CASE Goto(p, "over") /\ UNCHANGED supervisor
    BY <1>1, OverStep DEF Kill
  <1>2. CASE /\ supervisor[p] \notin {"none", "exited", "failed"} /\ UNCHANGED at
             /\ supervisor' = [supervisor EXCEPT ![p] = "failed"]
    <2>1. /\ UNCHANGED <<path, at, entry, lease, anvil>> /\ supervisor'[p] = "failed"
          /\ \A q \in Runs \ {p} : supervisor'[q] = supervisor[q]
      BY <1>2 DEF Kill, Typed
    <2> QED BY <1>2, <2>1, SuperviseStep
  <1> QED BY <1>1, <1>2 DEF Kill

----------------------------------------------------------------------------
(* The theorems.                                                           *)

\* The invariant of the run directories (run-lease.ts, run-initialization.ts).
THEOREM LeaseInvariant == Spec => []LeaseInv
  <1>1. Init => LeaseInv
    <2> SUFFICES ASSUME Init
                 PROVE  LeaseInv
      OBVIOUS
    <2>1. Typed
      BY NamesTyped DEF Init, Typed, Awaits, Leases, Supervisions, Anvils
    <2>2. ASSUME NEW r \in Runs
          PROVE  NamesSound(r) /\ RunSound(r) /\ EntrySound(r)
      <3>1. /\ path[Initial(r)] = Gone /\ path[Reserved(r)] = Gone
            /\ lease[Initial(r)] = "none" /\ lease[Reserved(r)] = "none"
            /\ at[r] = "new" /\ Unstarted(r)
        BY DirectoryFacts DEF Init, Unstarted
      <3>2. Reclaiming(r) /\ ~ Ending(r)
        BY <3>1 DEF Reclaiming, Ending, Claiming
      <3>3. NamesSound(r)
        BY <3>1, <3>2, GoneFacts DEF NamesSound
      <3> QED BY <3>1, <3>2, <3>3 DEF RunSound, EntrySound, Scanning, Claiming, Creating, Holding
    <2> QED BY <2>1, <2>2 DEF LeaseInv, LeaseSound
  <1>2. LeaseInv /\ [Next]_vars => LeaseInv'
    <2> SUFFICES ASSUME LeaseInv, [Next]_vars
                 PROVE  LeaseInv'
      OBVIOUS
    <2>1. Typed /\ LeaseSound /\ Typed'
      BY NextTyped DEF LeaseInv
    <2>2. CASE Next
      BY <2>1, <2>2, ReclaimKeeps, RunKeeps, SuperviseKeeps, KillKeeps DEF Next, LeaseInv
    <2>3. CASE UNCHANGED vars
      <3>1. \A r \in Runs : Stands(r) /\ Untouched(r)
        BY <2>3 DEF vars, Stands, Untouched
      <3>2. \A d \in Directories : path'[d] = path[d]
        BY <2>3 DEF vars
      <3>3. ASSUME NEW p \in Runs
            PROVE  EntrySound(p)'
        BY <2>1, <2>3 DEF vars, LeaseSound, EntrySound, Looked, Read, Claims, At, Settled, Ending, Reclaiming
      <3>4. Progress
        BY <3>1, StandingProgress DEF Progress
      <3> QED BY <2>1, <3>1, <3>3, <3>4, StandingSound DEF LeaseInv, LeaseSound
    <2> QED BY <2>2, <2>3
  <1> QED BY <1>1, <1>2, PTL DEF Spec

\* As long as an Anvil is alive the directory of its run is there with its lease,
\* the only record that leads to the process (run-lease.ts 75-78, 177-180): for any
\* number of overlapping runs, and whoever is killed at any await.
THEOREM AnvilsStayInCustody == Spec => []AliveIsInCustody
  <1>1. LeaseInv => AliveIsInCustody
    <2> SUFFICES ASSUME LeaseInv, NEW r \in Runs, anvil[r] = "alive"
                 PROVE  path[Initial(r)] # Gone /\ lease[Initial(r)] # "none"
      BY DEF AliveIsInCustody
    <2>1. NamesSound(r) /\ RunSound(r)
      BY DEF LeaseInv, LeaseSound
    <2>2. ~ Unstarted(r) /\ ~ Settled(r)
      BY DEF Unstarted, Settled
    <2>3. path[Initial(r)] # Gone /\ path[Initial(r)].kind # "delete"
      BY <2>1, <2>2 DEF NamesSound, RunSound
    <2> QED BY <2>1, <2>2, <2>3 DEF NamesSound
  <1> QED BY <1>1, LeaseInvariant, PTL

\* Nobody renames or removes what a live run has made until the run itself claims
\* it, and no two live processes delete the same directory (run-lease.ts 122-193,
\* 332-394), although claims of killed processes are taken over.
THEOREM DirectoriesHaveOneOwner == Spec => []OneOwner
  <1>1. LeaseInv => OneOwner
    <2> SUFFICES ASSUME LeaseInv, NEW p \in Runs
                 PROVE  /\ at[p] \in {"publish", "reserve", "promote"} => path[Initial(p)] = Name("initialize", p)
                        /\ at[p] = "promote" => path[Reserved(p)] = Name("run", p)
                        /\ at[p] \in {"prepare", "await", "running", "stopping", "remove-own"} =>
                             path[Initial(p)] = Name("run", p)
                        /\ \A q \in Runs : p # q /\ {at[p], at[q]} \subseteq {"erase", "remove"}
                                            => entry[p].identity # entry[q].identity
      BY DEF OneOwner
    <2>1. RunSound(p) /\ Typed /\ LeaseSound
      BY DEF LeaseInv, LeaseSound
    <2>2. ASSUME NEW q \in Runs, at[q] \in {"erase", "remove"}
          PROVE  path[entry[q].identity] = entry[q].name /\ entry[q].name.by = q
      BY <2>1, <2>2, DeletedIsClaimed
    <2>3. \A q \in Runs : p # q /\ {at[p], at[q]} \subseteq {"erase", "remove"}
                           => entry[p].identity # entry[q].identity
      BY <2>2
    <2> QED BY <2>1, <2>3 DEF RunSound, Creating, Holding
  <1> QED BY <1>1, LeaseInvariant, PTL

----------------------------------------------------------------------------
(* The runs of the Solana fixture.                                         *)

Removing == {"claim", "terminate", "validate", "rename", "delete"}
Looking  == {"owner", "settled"}
Starting == {"lease", "custody", "reserve", "reserve-record", "fork"}
Watching == {"await", "register", "acknowledge", "running", "stopping"}
FixtureAwaits == {"new", "scan", "cleanup", "over"} \cup Removing \cup Looking \cup Starting \cup Watching

Places == {"none", "run", "quarantine", "gone"}
Taken  == {"quarantine", "gone"}
FixtureEntries == [run : Fixture!Directories, registered : BOOLEAN]
Halts == {"no", "closing", "stuck", "settling", "settled"}

FixtureTyped ==
  /\ place \in [Fixture!Directories -> Places]
  /\ fixtureLease \in [Fixture!Directories -> {"none", "null", "registered"}]
  /\ marker \in [Fixture!Directories -> {"none", "settled", "reserved", "acquired"}]
  /\ pending \in [Fixture!Directories -> BOOLEAN]
  /\ fixtureAt \in [Runs -> FixtureAwaits] /\ fixtureTodo \in [Runs -> SUBSET Fixture!Directories]
  /\ fixtureEntry \in [Runs -> FixtureEntries]
  /\ keeper \in [Runs -> {"none", "alive", "exited"}] /\ stopping \in [Runs -> Halts]
  /\ validator \in [Fixture!Directories -> {"none", "alive", "stopped"}]

\* The guard beside the startup record stands for what the supervisor may still
\* start or has not yet stopped.
Guarded(r) ==
  /\ ~ pending[r] => validator[r] # "alive" /\ (keeper[r] = "alive" => stopping[r] = "settled")
  /\ stopping[r] \in {"settling", "settled"} => validator[r] # "alive"

\* A runner that has made no directory, and one that removes its own.
Unmade(r) ==
  fixtureAt[r] \in {"new", "scan"} \/ (fixtureAt[r] \in Looking \cup Removing /\ fixtureEntry[r].run # r)

Removes(r) == fixtureEntry[r].run = r /\ fixtureAt[r] \in {"cleanup"} \cup Removing

RunGuarded(r) ==
  /\ Guarded(r)
  /\ Unmade(r) => place[r] = "none" /\ ~ pending[r] /\ keeper[r] # "alive"
  /\ fixtureAt[r] \in Starting \cup Watching => place[r] = "run"
  /\ fixtureAt[r] \in Starting => keeper[r] # "alive"
  /\ fixtureAt[r] \in {"reserve-record", "fork"} => pending[r]
  /\ place[r] \in Taken => ~ pending[r] /\ (fixtureAt[r] = "over" \/ Removes(r))

\* What p knows of the run q under hand.
Knows(p, q) ==
  /\ place[q] # "none"
  /\ fixtureAt[p] \in Looking \cup {"terminate"} => q # p
  /\ q \in Runs =>
       /\ fixtureAt[p] \in {"settled"} \cup Removing => q = p \/ fixtureAt[q] = "over"
       /\ fixtureAt[p] \in Removing \ {"claim"} => ~ pending[q]
  /\ q = Old =>
       /\ fixtureAt[p] \in Looking \cup Removing => fixtureEntry[p].registered
       /\ fixtureAt[p] \in {"validate", "rename", "delete"} => validator[q] # "alive"

OldSound ==
  /\ fixtureLease[Old] # "null" /\ place[Old] # "none"
  /\ place[Old] \in Taken => validator[Old] # "alive"

FixtureSound == OldSound /\ \A p \in Runs : RunGuarded(p) /\ Knows(p, fixtureEntry[p].run)

FixtureInv == FixtureTyped /\ FixtureSound

----------------------------------------------------------------------------
(* Steps of one run.                                                       *)

\* What no step takes back.
FixtureProgress ==
  /\ \A q \in Fixture!Directories : place[q] # "none" => place'[q] # "none"
  /\ \A q \in Runs : fixtureAt[q] = "over" => fixtureAt'[q] = "over"
  /\ \A q \in Runs : ~ pending[q] => ~ pending'[q] \/ fixtureAt[q] = "reserve"
  /\ validator[Old] # "alive" => validator'[Old] # "alive"

RunnerKept(r) == fixtureAt'[r] = fixtureAt[r] /\ fixtureEntry'[r] = fixtureEntry[r]
KeeperKept(r) == keeper'[r] = keeper[r] /\ stopping'[r] = stopping[r]
FilesKept(q)  == place'[q] = place[q] /\ pending'[q] = pending[q]
Halted(q)     == validator'[q] = validator[q] \/ validator'[q] # "alive"

LEMMA OldIsNoRun == Old \notin Runs /\ Old \in Fixture!Directories /\ Runs \subseteq Fixture!Directories
  BY RunsAssumption DEF Fixture!FixtureAssumption, Fixture!Directories

\* A run that does nothing stays guarded: its validator may stop, and its directory
\* may be taken when it is over.
LEMMA RunStays ==
  ASSUME NEW r \in Runs, RunGuarded(r), RunnerKept(r), KeeperKept(r), Halted(r),
         pending'[r] = pending[r],
         place'[r] = place[r] \/ (fixtureAt[r] = "over" /\ ~ pending[r])
  PROVE  RunGuarded(r)'
  <1>1. Guarded(r)'
    BY DEF RunGuarded, Guarded, KeeperKept, Halted
  <1>2. CASE place'[r] = place[r]
    BY <1>1, <1>2 DEF RunGuarded, Unmade, Removes, RunnerKept, KeeperKept
  <1>3. CASE fixtureAt[r] = "over" /\ ~ pending[r]
    BY <1>1, <1>3 DEF RunGuarded, Unmade, Removes, RunnerKept, Looking, Removing, Starting, Watching
  <1> QED BY <1>2, <1>3

\* What p knows of the run under hand stays true while p does nothing.
LEMMA KnowledgeStays ==
  ASSUME FixtureTyped, FixtureProgress, NEW p \in Runs, RunnerKept(p), Knows(p, fixtureEntry[p].run)
  PROVE  Knows(p, fixtureEntry[p].run)'
  <1> DEFINE q == fixtureEntry[p].run
  <1>1. q \in Fixture!Directories /\ fixtureEntry'[p].run = q
    BY DEF FixtureTyped, FixtureEntries, RunnerKept
  <1>2. place'[q] # "none"
    BY <1>1 DEF Knows, FixtureProgress
  <1>3. fixtureAt[p] \in Removing \ {"claim"} /\ q \in Runs => ~ pending'[q]
    <2> SUFFICES ASSUME fixtureAt[p] \in Removing \ {"claim"}, q \in Runs, fixtureAt[q] = "reserve"
                 PROVE  FALSE
      BY DEF Knows, FixtureProgress
    <2> QED BY DEF Knows, Removing
  <1>4. q \in Runs /\ fixtureAt[q] = "over" => fixtureAt'[q] = "over"
    BY DEF FixtureProgress
  <1>5. q = Old /\ validator[q] # "alive" => validator'[q] # "alive"
    BY DEF FixtureProgress
  <1> QED BY <1>1, <1>2, <1>3, <1>4, <1>5 DEF Knows, RunnerKept

\* A step that disturbs the run p, and its directory or that of one that is over.
LEMMA RunSteps ==
  ASSUME FixtureInv, FixtureTyped', FixtureProgress, OldSound', NEW p \in Runs,
         \A r \in Runs \ {p} :
           /\ RunnerKept(r) /\ KeeperKept(r) /\ Halted(r) /\ pending'[r] = pending[r]
           /\ place'[r] = place[r] \/ (fixtureAt[r] = "over" /\ ~ pending[r]),
         RunGuarded(p)', Knows(p, fixtureEntry[p].run)'
  PROVE  FixtureInv'
  <1>1. ASSUME NEW r \in Runs
        PROVE  RunGuarded(r)' /\ Knows(r, fixtureEntry[r].run)'
    <2>1. CASE r = p
      BY <2>1
    <2>2. CASE r # p
      BY <2>2, RunStays, KnowledgeStays DEF FixtureInv, FixtureSound
    <2> QED BY <2>1, <2>2
  <1> QED BY <1>1 DEF FixtureInv, FixtureSound

\* A step of the runner p that neither takes nor makes a directory.
Moves(p) ==
  /\ fixtureAt' \in [Runs -> FixtureAwaits] /\ fixtureTodo' \in [Runs -> SUBSET Fixture!Directories]
  /\ fixtureEntry' \in [Runs -> FixtureEntries]
  /\ \A r \in Runs \ {p} : RunnerKept(r)

Markers == [Fixture!Directories -> {"none", "settled", "reserved", "acquired"}]
Papers  == [Fixture!Directories -> {"none", "null", "registered"}]

LEMMA RunnerSteps ==
  ASSUME FixtureInv, NEW p \in Runs, fixtureAt[p] # "over", Moves(p),
         UNCHANGED <<place, pending, keeper, stopping, validator>>,
         marker' \in Markers, fixtureLease' \in Papers, fixtureLease'[Old] = fixtureLease[Old],
         RunGuarded(p)', Knows(p, fixtureEntry[p].run)'
  PROVE  FixtureInv'
  <1>1. FixtureTyped'
    BY DEF FixtureInv, FixtureTyped, Moves, Markers, Papers
  <1>2. FixtureProgress
    BY DEF FixtureInv, FixtureTyped, FixtureProgress, Moves, RunnerKept
  <1>3. OldSound'
    BY DEF FixtureInv, FixtureSound, OldSound
  <1>4. \A r \in Runs \ {p} : RunnerKept(r) /\ KeeperKept(r) /\ Halted(r)
    BY DEF Moves, KeeperKept, Halted
  <1> QED BY <1>1, <1>2, <1>3, <1>4, RunSteps

LEMMA Goes ==
  ASSUME FixtureInv, NEW p \in Runs, NEW a \in FixtureAwaits, Fixture!Goto(p, a), UNCHANGED <<fixtureTodo, fixtureEntry>>
  PROVE  Moves(p) /\ fixtureAt'[p] = a /\ fixtureEntry'[p] = fixtureEntry[p]
  BY DEF FixtureInv, FixtureTyped, Moves, RunnerKept, Fixture!Goto

LEMMA EndGoes ==
  ASSUME FixtureInv, NEW p \in Runs, Fixture!End(p)
  PROVE  Moves(p) /\ fixtureAt'[p] = "over" /\ fixtureEntry'[p].run = Old
  BY OldIsNoRun DEF FixtureInv, FixtureTyped, Moves, RunnerKept, Fixture!Goto, Fixture!End,
     Fixture!NoEntry, FixtureEntries, FixtureAwaits

LEMMA SkipGoes ==
  ASSUME FixtureInv, NEW p \in Runs, Fixture!Skip(p)
  PROVE  Moves(p) /\ fixtureAt'[p] = "scan" /\ fixtureEntry'[p].run = Old
  BY OldIsNoRun DEF FixtureInv, FixtureTyped, Moves, RunnerKept, Fixture!Goto, Fixture!Skip,
     Fixture!NoEntry, FixtureEntries, FixtureAwaits

\* Nothing is known of the old run, and nothing has to be.
LEMMA KnowsNothing ==
  ASSUME NEW p \in Runs, fixtureAt'[p] \in {"scan", "over"}, fixtureEntry'[p].run = Old, OldSound'
  PROVE  Knows(p, fixtureEntry[p].run)'
  BY OldIsNoRun DEF Knows, OldSound, Looking, Removing

\* What a runner leaves as it was.
FilesStay ==
  /\ UNCHANGED <<place, pending, keeper, stopping, validator>>
  /\ marker' \in Markers /\ fixtureLease' \in Papers /\ fixtureLease'[Old] = fixtureLease[Old]

LEMMA UnchangedFilesStay ==
  ASSUME FixtureInv, UNCHANGED <<Fixture!files, keeper, stopping, validator>>
  PROVE  FilesStay
  BY DEF FixtureInv, FixtureTyped, FilesStay, Fixture!files, Markers, Papers

LEMMA RunnerEnds ==
  ASSUME FixtureInv, NEW p \in Runs, fixtureAt[p] # "over", FilesStay, Fixture!End(p)
  PROVE  FixtureInv'
  <1>1. Moves(p) /\ fixtureAt'[p] = "over" /\ fixtureEntry'[p].run = Old
    BY EndGoes
  <1>2. RunGuarded(p)'
    BY <1>1 DEF FixtureInv, FixtureSound, RunGuarded, Guarded, Unmade, Removes, FilesStay,
       Looking, Removing, Starting, Watching
  <1>3. OldSound'
    BY DEF FixtureInv, FixtureSound, OldSound, FilesStay
  <1> QED BY <1>1, <1>2, <1>3, KnowsNothing, RunnerSteps DEF FilesStay

LEMMA RunnerSkips ==
  ASSUME FixtureInv, NEW p \in Runs, Unmade(p), FilesStay, Fixture!Skip(p)
  PROVE  FixtureInv'
  <1>1. Moves(p) /\ fixtureAt'[p] = "scan" /\ fixtureEntry'[p].run = Old
    BY SkipGoes
  <1>2. RunGuarded(p)'
    BY <1>1 DEF FixtureInv, FixtureSound, RunGuarded, Guarded, Unmade, Removes, FilesStay,
       Looking, Removing, Starting, Watching
  <1>3. OldSound'
    BY DEF FixtureInv, FixtureSound, OldSound, FilesStay
  <1>4. fixtureAt[p] # "over"
    BY DEF Unmade, Looking, Removing
  <1> QED BY <1>1, <1>2, <1>3, <1>4, KnowsNothing, RunnerSteps DEF FilesStay

\* A runner that goes on with the entry it has.
LEMMA RunnerGoesOn ==
  ASSUME FixtureInv, NEW p \in Runs, NEW a \in FixtureAwaits, fixtureAt[p] # "over", FilesStay,
         Fixture!Goto(p, a), UNCHANGED <<fixtureTodo, fixtureEntry>>,
         RunGuarded(p)', Knows(p, fixtureEntry[p].run)'
  PROVE  FixtureInv'
  BY Goes, RunnerSteps DEF FilesStay

----------------------------------------------------------------------------
(* The initial states, and the invariant gives what is promised.           *)

LEMMA FixtureStarts == Fixture!Init => FixtureInv
  <1> SUFFICES ASSUME Fixture!Init PROVE FixtureInv
    OBVIOUS
  <1>1. FixtureTyped
    BY OldIsNoRun DEF Fixture!Init, FixtureTyped, Places, FixtureAwaits, Halts, FixtureEntries, Fixture!NoEntry
  <1>2. OldSound
    BY OldIsNoRun DEF Fixture!Init, OldSound, Taken
  <1>3. ASSUME NEW p \in Runs
        PROVE  RunGuarded(p) /\ Knows(p, fixtureEntry[p].run)
    BY <1>3, OldIsNoRun DEF Fixture!Init, Fixture!NoEntry, RunGuarded, Guarded, Knows, Unmade, Removes,
       Looking, Removing, Starting, Watching, Taken
  <1> QED BY <1>1, <1>2, <1>3 DEF FixtureInv, FixtureSound

LEMMA InvariantRemoves == FixtureInv => RemovedIsStopped
  <1> SUFFICES ASSUME FixtureInv PROVE RemovedIsStopped
    OBVIOUS
  <1>1. ASSUME NEW q \in Fixture!Directories, place[q] \in {"quarantine", "gone"}
        PROVE  validator[q] # "alive"
    BY <1>1 DEF FixtureInv, FixtureSound, OldSound, RunGuarded, Guarded, Taken, Fixture!Directories
  <1>2. ASSUME NEW p \in Runs, Fixture!Alive(p), place[p] \in {"quarantine", "gone"}
        PROVE  fixtureEntry[p].run = p
    BY <1>2 DEF FixtureInv, FixtureSound, RunGuarded, Removes, Taken, Fixture!Alive
  <1> QED BY <1>1, <1>2 DEF RemovedIsStopped, Fixture!RemovedIsStopped

----------------------------------------------------------------------------
(* Looking at what others left.                                            *)

LEMMA ScanKeeps ==
  ASSUME FixtureInv, NEW p \in Runs,
         Fixture!List(p) \/ Fixture!ReadRun(p) \/ Fixture!AuthenticateOwner(p) \/ Fixture!CheckSettled(p)
  PROVE  FixtureInv'
  <1> USE DEF FixtureAwaits, Looking, Removing, Starting, Watching
  <1>1. FilesStay
    BY UnchangedFilesStay DEF Fixture!List, Fixture!ReadRun, Fixture!AuthenticateOwner, Fixture!CheckSettled,
       Fixture!Others, Fixture!processes
  <1>2. RunGuarded(p) /\ Knows(p, fixtureEntry[p].run) /\ OldSound
    BY DEF FixtureInv, FixtureSound
  <1>3. CASE Fixture!List(p)
    <2>1. fixtureAt[p] = "new"
      BY <1>3 DEF Fixture!List
    <2>2. Moves(p) /\ fixtureAt'[p] = "scan" /\ fixtureEntry'[p] = fixtureEntry[p]
      BY <1>3 DEF FixtureInv, FixtureTyped, Moves, RunnerKept, Fixture!List, Fixture!Goto
    <2>3. RunGuarded(p)' /\ Knows(p, fixtureEntry[p].run)'
      BY <1>1, <1>2, <2>1, <2>2 DEF RunGuarded, Guarded, Unmade, Removes, Knows, FilesStay
    <2> QED BY <1>1, <2>1, <2>2, <2>3, RunnerSteps DEF FilesStay
  <1>4. CASE Fixture!ReadRun(p)
    <2>1. fixtureAt[p] = "scan" /\ fixtureTodo[p] \subseteq Fixture!Directories
          /\ fixtureTodo' \in [Runs -> SUBSET Fixture!Directories]
      BY <1>4 DEF FixtureInv, FixtureTyped, Fixture!ReadRun
    <2>4. PICK q \in Fixture!Directories :
            IF Fixture!Valid(q)
              THEN /\ fixtureEntry' = [fixtureEntry EXCEPT
                        ![p] = [run |-> q, registered |-> fixtureLease[q] = "registered"]]
                   /\ Fixture!Goto(p, "owner")
              ELSE UNCHANGED <<fixtureAt, fixtureEntry>>
      BY <1>4, <2>1 DEF Fixture!ReadRun
    <2>2. CASE Fixture!Valid(q)
      <3>1. place[q] = "run" /\ fixtureLease[q] # "none" /\ q # p
        BY <1>2, <2>1, <2>2 DEF Fixture!Valid, RunGuarded, Unmade
      <3>2. Moves(p) /\ fixtureAt'[p] = "owner" /\ fixtureEntry'[p].run = q
            /\ (q = Old => fixtureEntry'[p].registered)
        <4>1. fixtureLease[q] \in {"none", "null", "registered"}
          BY DEF FixtureInv, FixtureTyped
        <4>2. [run |-> q, registered |-> fixtureLease[q] = "registered"] \in FixtureEntries
          BY DEF FixtureEntries
        <4>3. /\ fixtureEntry' = [fixtureEntry EXCEPT
                   ![p] = [run |-> q, registered |-> fixtureLease[q] = "registered"]]
              /\ fixtureAt' = [fixtureAt EXCEPT ![p] = "owner"]
          BY <2>2, <2>4 DEF Fixture!Goto
        <4>4. Moves(p) /\ fixtureAt'[p] = "owner"
              /\ fixtureEntry'[p] = [run |-> q, registered |-> fixtureLease[q] = "registered"]
          BY <2>1, <4>2, <4>3 DEF FixtureInv, FixtureTyped, Moves, RunnerKept
        <4>5. q = Old => fixtureLease[q] = "registered"
          BY <1>2, <3>1, <4>1 DEF OldSound
        <4>6. fixtureEntry'[p].registered = (fixtureLease[q] = "registered") /\ fixtureEntry'[p].run = q
          BY <4>4
        <4> QED BY <4>4, <4>5, <4>6, Zenon
      <3>3. RunGuarded(p)' /\ Knows(p, fixtureEntry[p].run)'
        BY <1>1, <1>2, <2>1, <3>1, <3>2 DEF RunGuarded, Guarded, Unmade, Removes, Knows, FilesStay
      <3> QED BY <1>1, <2>1, <3>2, <3>3, RunnerSteps DEF FilesStay
    <2>3. CASE ~ Fixture!Valid(q)
      <3>1. Moves(p) /\ RunnerKept(p)
        BY <2>1, <2>3, <2>4 DEF FixtureInv, FixtureTyped, Moves, RunnerKept
      <3>2. RunGuarded(p)' /\ Knows(p, fixtureEntry[p].run)'
        BY <1>1, <1>2, <2>1, <3>1 DEF RunGuarded, Guarded, Unmade, Removes, Knows, FilesStay, RunnerKept
      <3> QED BY <1>1, <2>1, <3>1, <3>2, RunnerSteps DEF FilesStay
    <2> QED BY <2>2, <2>3
  <1>5. CASE Fixture!AuthenticateOwner(p)
    <2>1. fixtureAt[p] = "owner" /\ fixtureEntry[p].run # p
      BY <1>2, <1>5 DEF Fixture!AuthenticateOwner, Knows
    <2>2. CASE Fixture!Alive(fixtureEntry[p].run)
      <3>1. Fixture!Skip(p)
        BY <1>5, <2>2 DEF Fixture!AuthenticateOwner
      <3> QED BY <1>1, <2>1, <3>1, RunnerSkips DEF Unmade
    <2>3. CASE ~ Fixture!Alive(fixtureEntry[p].run)
      <3>1. Fixture!Goto(p, "settled") /\ UNCHANGED <<fixtureTodo, fixtureEntry>>
        BY <1>5, <2>3 DEF Fixture!AuthenticateOwner, Fixture!Hand
      <3>2. fixtureAt'[p] = "settled" /\ fixtureEntry'[p] = fixtureEntry[p]
            /\ \A r \in Runs \ {p} : RunnerKept(r)
        BY <3>1, Goes DEF Moves
      <3>3. fixtureEntry[p].run \in Runs => fixtureAt[fixtureEntry[p].run] = "over"
        BY <1>2, <2>3 DEF FixtureInv, FixtureSound, RunGuarded, Unmade, Knows, Fixture!Alive
      <3>4. fixtureEntry[p].run \in Runs => fixtureAt'[fixtureEntry[p].run] = "over"
        BY <2>1, <3>2, <3>3 DEF RunnerKept
      <3>5. RunGuarded(p)' /\ Knows(p, fixtureEntry[p].run)'
        BY <1>1, <1>2, <2>1, <3>2, <3>4 DEF RunGuarded, Guarded, Unmade, Removes, Knows, FilesStay
      <3> QED BY <1>1, <2>1, <3>1, <3>5, RunnerGoesOn
    <2> QED BY <2>2, <2>3
  <1>6. CASE Fixture!CheckSettled(p)
    <2>1. fixtureAt[p] = "settled" /\ fixtureEntry[p].run # p
      BY <1>2, <1>6 DEF Fixture!CheckSettled, Knows
    <2>2. CASE Fixture!Settled(fixtureEntry[p].run, fixtureEntry[p].registered)
      <3>1. Fixture!Goto(p, "claim") /\ UNCHANGED <<fixtureTodo, fixtureEntry>>
        BY <1>6, <2>2 DEF Fixture!CheckSettled, Fixture!Hand
      <3>2. fixtureAt'[p] = "claim" /\ fixtureEntry'[p] = fixtureEntry[p]
            /\ \A r \in Runs \ {p} : RunnerKept(r)
        BY <3>1, Goes DEF Moves
      <3>3. fixtureEntry[p].run \in Runs => fixtureAt'[fixtureEntry[p].run] = "over"
        BY <1>2, <2>1, <3>2 DEF RunnerKept, Knows
      <3>5. RunGuarded(p)' /\ Knows(p, fixtureEntry[p].run)'
        BY <1>1, <1>2, <2>1, <3>2, <3>3 DEF RunGuarded, Guarded, Unmade, Removes, Knows, FilesStay
      <3> QED BY <1>1, <2>1, <3>1, <3>5, RunnerGoesOn
    <2>3. CASE ~ Fixture!Settled(fixtureEntry[p].run, fixtureEntry[p].registered)
      <3>1. Fixture!Skip(p)
        BY <1>6, <2>3 DEF Fixture!CheckSettled
      <3> QED BY <1>1, <2>1, <3>1, RunnerSkips DEF Unmade
    <2> QED BY <2>2, <2>3
  <1> QED BY <1>3, <1>4, <1>5, <1>6

----------------------------------------------------------------------------
(* Removing a directory, one's own or that of a run that is over.          *)

\* Whoever removes knows that its own run is not under way.
LEMMA Retried ==
  ASSUME FixtureInv, NEW p \in Runs, Fixture!Retry(p), ~ Fixture!End(p)
  PROVE  Fixture!Goto(p, "cleanup") /\ UNCHANGED <<fixtureTodo, fixtureEntry>>
  BY DEF Fixture!Retry

\* A removal that fails, or finds that another was there before it.
LEMMA ThrowGoes ==
  ASSUME FixtureInv, NEW p \in Runs, fixtureAt[p] \in Removing,
         Fixture!Throw(p) \/ Fixture!Lost(p)
  PROVE  /\ Moves(p)
         /\ \/ fixtureAt'[p] = "over" /\ fixtureEntry'[p].run = Old
            \/ fixtureAt'[p] = "scan" /\ fixtureEntry'[p].run = Old /\ fixtureEntry[p].run # p
            \/ fixtureAt'[p] = "cleanup" /\ fixtureEntry'[p] = fixtureEntry[p] /\ fixtureEntry[p].run = p
  <1>1. CASE Fixture!End(p)
    BY <1>1, EndGoes
  <1>2. CASE Fixture!Skip(p) /\ fixtureEntry[p].run # p
    BY <1>2, SkipGoes
  <1>3. CASE Fixture!Retry(p) /\ ~ Fixture!End(p) /\ fixtureEntry[p].run = p
    BY <1>3, Retried, Goes DEF FixtureAwaits
  <1> QED BY <1>1, <1>2, <1>3 DEF Fixture!Throw, Fixture!Lost, Fixture!Own

\* A runner that removes and whose directory is not touched.
LEMMA ThrowGuarded ==
  ASSUME FixtureInv, NEW p \in Runs, fixtureAt[p] \in Removing,
         Fixture!Throw(p) \/ Fixture!Lost(p), OldSound',
         UNCHANGED <<pending, keeper, stopping, validator>>,
         place'[p] = place[p] \/ (fixtureEntry[p].run = p /\ ~ pending[p]),
         \A q \in Fixture!Directories : place[q] # "none" => place'[q] # "none"
  PROVE  RunGuarded(p)' /\ Knows(p, fixtureEntry[p].run)'
  <1>1. /\ Moves(p)
        /\ \/ fixtureAt'[p] = "over" /\ fixtureEntry'[p].run = Old
           \/ fixtureAt'[p] = "scan" /\ fixtureEntry'[p].run = Old /\ fixtureEntry[p].run # p
           \/ fixtureAt'[p] = "cleanup" /\ fixtureEntry'[p] = fixtureEntry[p] /\ fixtureEntry[p].run = p
    BY ThrowGoes
  <1>2. RunGuarded(p) /\ Knows(p, fixtureEntry[p].run)
    BY DEF FixtureInv, FixtureSound
  <1>3. Guarded(p)'
    BY <1>2 DEF RunGuarded, Guarded
  <1> USE DEF Looking, Removing, Starting, Watching
  <1>4. CASE fixtureAt'[p] = "over" /\ fixtureEntry'[p].run = Old
    BY <1>2, <1>3, <1>4, KnowsNothing DEF RunGuarded, Unmade, Removes
  <1>5. CASE fixtureAt'[p] = "scan" /\ fixtureEntry'[p].run = Old /\ fixtureEntry[p].run # p
    BY <1>2, <1>3, <1>5, KnowsNothing DEF RunGuarded, Unmade, Removes
  <1>6. CASE fixtureAt'[p] = "cleanup" /\ fixtureEntry'[p] = fixtureEntry[p] /\ fixtureEntry[p].run = p
    BY <1>2, <1>3, <1>6, OldIsNoRun DEF RunGuarded, Unmade, Removes, Knows
  <1> QED BY <1>1, <1>4, <1>5, <1>6

LEMMA FailedRemovalKeeps ==
  ASSUME FixtureInv, NEW p \in Runs, fixtureAt[p] \in Removing, FilesStay,
         Fixture!Throw(p) \/ Fixture!Lost(p)
  PROVE  FixtureInv'
  <1>1. OldSound'
    BY DEF FixtureInv, FixtureSound, OldSound, FilesStay
  <1>2. Moves(p)
    BY ThrowGoes
  <1>3. RunGuarded(p)' /\ Knows(p, fixtureEntry[p].run)'
    BY <1>1, ThrowGuarded DEF FilesStay
  <1>4. fixtureAt[p] # "over"
    BY DEF Removing
  <1> QED BY <1>2, <1>3, <1>4, RunnerSteps DEF FilesStay

LEMMA RemovalKeeps ==
  ASSUME FixtureInv, NEW p \in Runs,
         Fixture!CheckAgain(p) \/ Fixture!Revalidate(p) \/ Fixture!Cleanup(p) \/ Fixture!CleanedUp(p)
  PROVE  FixtureInv'
  <1> USE DEF FixtureAwaits, Looking, Removing, Starting, Watching
  <1>1. FilesStay
    BY UnchangedFilesStay DEF Fixture!CheckAgain, Fixture!Revalidate, Fixture!Cleanup, Fixture!CleanedUp,
       Fixture!Others, Fixture!processes
  <1>2. RunGuarded(p) /\ Knows(p, fixtureEntry[p].run) /\ OldSound
    BY DEF FixtureInv, FixtureSound
  <1>3. CASE Fixture!CheckAgain(p)
    <2>1. fixtureAt[p] = "claim"
      BY <1>3 DEF Fixture!CheckAgain
    <2>2. CASE Fixture!Settled(fixtureEntry[p].run, fixtureEntry[p].registered)
      <3> DEFINE a == IF fixtureEntry[p].run = p THEN "validate" ELSE "terminate"
      <3>1. Fixture!Goto(p, a) /\ UNCHANGED <<fixtureTodo, fixtureEntry>>
        BY <1>3, <2>2 DEF Fixture!CheckAgain, Fixture!Hand, Fixture!Own
      <3>2. Moves(p) /\ fixtureAt'[p] = a /\ fixtureEntry'[p] = fixtureEntry[p]
        BY <3>1 DEF FixtureInv, FixtureTyped, Moves, RunnerKept, Fixture!Goto
      <3> HIDE DEF a
      <3>3. fixtureEntry[p].run \in Runs => ~ pending[fixtureEntry[p].run]
        <4> SUFFICES ASSUME fixtureEntry[p].run \in Runs, pending[fixtureEntry[p].run]
                     PROVE  FALSE
          OBVIOUS
        <4>1. RunGuarded(fixtureEntry[p].run) /\ place[fixtureEntry[p].run] \in Places
          BY OldIsNoRun DEF FixtureInv, FixtureTyped, FixtureSound
        <4>2. place[fixtureEntry[p].run] = "run"
          BY <1>2, <4>1 DEF RunGuarded, Knows, Places, Taken
        <4> QED BY <2>2, <4>2 DEF Fixture!Settled
      <3>4. \A r \in Runs \ {p} : RunnerKept(r)
        BY <3>2 DEF Moves
      <3>5. (fixtureEntry[p].run = p => a = "validate") /\ (fixtureEntry[p].run # p => a = "terminate")
        BY DEF a
      <3>6. RunGuarded(p)'
        BY <1>1, <1>2, <2>1, <3>2, <3>5 DEF RunGuarded, Guarded, Unmade, Removes, FilesStay
      <3>7. Knows(p, fixtureEntry[p].run)'
        BY <1>1, <1>2, <2>1, <3>2, <3>3, <3>4, <3>5, OldIsNoRun DEF Knows, FilesStay, RunnerKept
      <3> QED BY <1>1, <2>1, <3>2, <3>6, <3>7, RunnerSteps DEF FilesStay
    <2>3. CASE ~ Fixture!Settled(fixtureEntry[p].run, fixtureEntry[p].registered)
      <3>1. Fixture!Lost(p)
        BY <1>3, <2>3 DEF Fixture!CheckAgain
      <3> QED BY <1>1, <2>1, <3>1, FailedRemovalKeeps
    <2> QED BY <2>2, <2>3
  <1>4. CASE Fixture!Revalidate(p)
    <2>1. fixtureAt[p] = "validate"
      BY <1>4 DEF Fixture!Revalidate
    <2>2. CASE Fixture!Valid(fixtureEntry[p].run)
      <3>1. Fixture!Goto(p, "rename") /\ UNCHANGED <<fixtureTodo, fixtureEntry>>
        BY <1>4, <2>2 DEF Fixture!Revalidate, Fixture!Hand
      <3>2. Moves(p) /\ fixtureAt'[p] = "rename" /\ fixtureEntry'[p] = fixtureEntry[p]
        BY <3>1, Goes
      <3>3. \A r \in Runs \ {p} : RunnerKept(r)
        BY <3>2 DEF Moves
      <3>4. RunGuarded(p)' /\ Knows(p, fixtureEntry[p].run)'
        BY <1>1, <1>2, <2>1, <3>2, <3>3 DEF RunGuarded, Guarded, Unmade, Removes, Knows, FilesStay, RunnerKept
      <3> QED BY <1>1, <2>1, <3>1, <3>4, RunnerGoesOn
    <2>3. CASE ~ Fixture!Valid(fixtureEntry[p].run)
      <3>1. Fixture!Lost(p)
        BY <1>4, <2>3 DEF Fixture!Revalidate
      <3> QED BY <1>1, <2>1, <3>1, FailedRemovalKeeps
    <2> QED BY <2>2, <2>3
  <1>5. CASE Fixture!Cleanup(p)
    <2>1. fixtureAt[p] = "cleanup" /\ place[p] = "run"
      BY <1>5 DEF Fixture!Cleanup
    <2> DEFINE own == fixtureLease[p] = "registered"
    <2>2. CASE Fixture!Valid(p) /\ Fixture!Settled(p, own) /\ ~ (own /\ validator[p] = "alive")
      <3>1. /\ fixtureEntry' = [fixtureEntry EXCEPT ![p] = [run |-> p, registered |-> own]]
            /\ Fixture!Goto(p, "claim") /\ UNCHANGED fixtureTodo
        BY <1>5, <2>2 DEF Fixture!Cleanup
      <3>2. [run |-> p, registered |-> own] \in FixtureEntries
        BY OldIsNoRun DEF FixtureEntries
      <3>3. Moves(p) /\ fixtureAt'[p] = "claim" /\ fixtureEntry'[p].run = p
        BY <3>1, <3>2 DEF FixtureInv, FixtureTyped, Moves, RunnerKept, Fixture!Goto
      <3>4. RunGuarded(p)' /\ Knows(p, fixtureEntry[p].run)'
        BY <1>1, <1>2, <2>1, <3>3, OldIsNoRun DEF RunGuarded, Guarded, Unmade, Removes, Knows, FilesStay, Taken
      <3> QED BY <1>1, <2>1, <3>3, <3>4, RunnerSteps DEF FilesStay
    <2>3. CASE Fixture!Retry(p)
      <3>1. CASE Fixture!End(p)
        BY <1>1, <2>1, <3>1, RunnerEnds
      <3>2. CASE ~ Fixture!End(p)
        <4>1. Fixture!Goto(p, "cleanup") /\ UNCHANGED <<fixtureTodo, fixtureEntry>>
          BY <2>3, <3>2, Retried
        <4>2. Moves(p) /\ fixtureAt'[p] = "cleanup" /\ fixtureEntry'[p] = fixtureEntry[p]
          BY <4>1, Goes
        <4>3. RunGuarded(p)' /\ Knows(p, fixtureEntry[p].run)'
          BY <1>1, <1>2, <2>1, <4>2, OldIsNoRun DEF RunGuarded, Guarded, Unmade, Removes, Knows, FilesStay, Taken
        <4> QED BY <1>1, <2>1, <4>1, <4>3, RunnerGoesOn
      <3> QED BY <3>1, <3>2
    <2> QED BY <1>5, <2>2, <2>3 DEF Fixture!Cleanup
  <1>6. CASE Fixture!CleanedUp(p)
    BY <1>1, <1>6, RunnerEnds DEF Fixture!CleanedUp
  <1> QED BY <1>3, <1>4, <1>5, <1>6

\* Who renames or deletes knows that nothing is left of the run to start or to stop.
Takes(p) ==
  /\ fixtureAt[p] \in {"rename", "delete"}
  /\ UNCHANGED <<pending, keeper, stopping, validator>>
  /\ marker' \in Markers /\ fixtureLease' \in Papers /\ fixtureLease'[Old] \in {fixtureLease[Old], "none"}
  /\ \E where \in {"run", "quarantine", "gone"} :
       place' \in {place, [place EXCEPT ![fixtureEntry[p].run] = where]}

LEMMA TakenPlace ==
  ASSUME FixtureInv, NEW p \in Runs, Takes(p)
  PROVE  /\ place' \in [Fixture!Directories -> Places]
         /\ \A q \in Fixture!Directories :
              /\ place'[q] = place[q] \/ (q = fixtureEntry[p].run /\ place'[q] # "none")
              /\ place[q] # "none" => place'[q] # "none"
  <1>1. place \in [Fixture!Directories -> Places] /\ fixtureEntry[p].run \in Fixture!Directories
    BY DEF FixtureInv, FixtureTyped, FixtureEntries
  <1>2. PICK where \in {"run", "quarantine", "gone"} :
          place' \in {place, [place EXCEPT ![fixtureEntry[p].run] = where]}
    BY DEF Takes
  <1> QED BY <1>1, <1>2 DEF Places

LEMMA TakenOld ==
  ASSUME FixtureInv, NEW p \in Runs, Takes(p)
  PROVE  OldSound'
  <1>1. OldSound /\ Knows(p, fixtureEntry[p].run)
    BY DEF FixtureInv, FixtureSound
  <1>2. place'[Old] # "none" /\ fixtureLease'[Old] # "null"
    BY <1>1, TakenPlace, OldIsNoRun DEF OldSound, Takes
  <1>3. CASE place'[Old] = place[Old]
    BY <1>1, <1>2, <1>3 DEF OldSound, Takes
  <1>4. CASE fixtureEntry[p].run = Old
    BY <1>1, <1>2, <1>4 DEF OldSound, Takes, Knows
  <1> QED BY <1>3, <1>4, TakenPlace, OldIsNoRun

LEMMA RemoverSteps ==
  ASSUME FixtureInv, NEW p \in Runs, Takes(p), Moves(p),
         RunGuarded(p)', Knows(p, fixtureEntry[p].run)'
  PROVE  FixtureInv'
  <1>1. /\ place' \in [Fixture!Directories -> Places]
        /\ \A q \in Fixture!Directories :
             /\ place'[q] = place[q] \/ (q = fixtureEntry[p].run /\ place'[q] # "none")
             /\ place[q] # "none" => place'[q] # "none"
    BY TakenPlace
  <1>2. FixtureTyped'
    BY <1>1 DEF FixtureInv, FixtureTyped, Moves, Takes, Markers, Papers
  <1>3. FixtureProgress
    <2>1. fixtureAt[p] # "over"
      BY DEF Takes
    <2> QED BY <1>1, <2>1 DEF FixtureInv, FixtureTyped, FixtureProgress, Moves, RunnerKept, Takes
  <1>4. ASSUME NEW r \in Runs \ {p}
        PROVE  /\ RunnerKept(r) /\ KeeperKept(r) /\ Halted(r) /\ pending'[r] = pending[r]
               /\ place'[r] = place[r] \/ (fixtureAt[r] = "over" /\ ~ pending[r])
    <2>1. RunnerKept(r) /\ KeeperKept(r) /\ Halted(r) /\ pending'[r] = pending[r]
      BY DEF Moves, Takes, KeeperKept, Halted
    <2>2. CASE r = fixtureEntry[p].run
      BY <2>1, <2>2 DEF FixtureInv, FixtureSound, Knows, Takes, Removing
    <2>3. CASE r # fixtureEntry[p].run
      BY <1>1, <2>1, <2>3, OldIsNoRun
    <2> QED BY <2>2, <2>3
  <1> QED BY <1>2, <1>3, <1>4, TakenOld, RunSteps

LEMMA TakeKeeps ==
  ASSUME FixtureInv, NEW p \in Runs,
         Fixture!Quarantine(p) \/ Fixture!Delete(p) \/ Fixture!DeleteFails(p)
  PROVE  FixtureInv'
  <1> USE DEF Looking, Removing, Starting, Watching
  <1>1. RunGuarded(p) /\ Knows(p, fixtureEntry[p].run)
    BY DEF FixtureInv, FixtureSound
  <1>2. CASE Fixture!Quarantine(p)
    <2>1. fixtureAt[p] = "rename"
      BY <1>2 DEF Fixture!Quarantine
    <2>2. CASE place[fixtureEntry[p].run] = "run"
      <3>1. /\ place' = [place EXCEPT ![fixtureEntry[p].run] = "quarantine"]
            /\ Fixture!Goto(p, "delete") /\ UNCHANGED <<fixtureTodo, fixtureEntry>>
            /\ UNCHANGED <<fixtureLease, marker, pending, keeper, stopping, validator>>
        BY <1>2, <2>2 DEF Fixture!Quarantine, Fixture!Hand, Fixture!Others, Fixture!processes
      <3>2. Takes(p)
        BY <2>1, <3>1 DEF Takes, FixtureInv, FixtureTyped, Markers, Papers
      <3>3. Moves(p) /\ fixtureAt'[p] = "delete" /\ fixtureEntry'[p] = fixtureEntry[p]
        BY <3>1, Goes DEF FixtureAwaits
      <3>4. place'[fixtureEntry[p].run] # "none" /\ (fixtureEntry[p].run # p => place'[p] = place[p])
        BY <1>1, <3>2, TakenPlace, OldIsNoRun DEF FixtureInv, FixtureTyped, FixtureEntries, Knows
      <3>5. RunGuarded(p)'
        BY <1>1, <2>1, <3>1, <3>3, <3>4 DEF RunGuarded, Guarded, Unmade, Removes, Knows
      <3>6. Knows(p, fixtureEntry[p].run)'
        BY <1>1, <2>1, <3>1, <3>3, <3>4, OldIsNoRun DEF Knows, Moves, RunnerKept
      <3> QED BY <3>2, <3>3, <3>5, <3>6, RemoverSteps
    <2>3. CASE place[fixtureEntry[p].run] # "run"
      <3>1. Fixture!Lost(p) /\ UNCHANGED <<Fixture!files, keeper, stopping, validator>>
        BY <1>2, <2>3 DEF Fixture!Quarantine, Fixture!Others, Fixture!processes, Fixture!files
      <3> QED BY <2>1, <3>1, UnchangedFilesStay, FailedRemovalKeeps
    <2> QED BY <2>2, <2>3
  <1>3. CASE Fixture!Delete(p)
    <2>1. /\ fixtureAt[p] = "delete"
          /\ place' = [place EXCEPT ![fixtureEntry[p].run] = "gone"]
          /\ UNCHANGED <<fixtureLease, marker, pending, keeper, stopping, validator>>
          /\ Fixture!End(p) \/ (fixtureEntry[p].run # p /\ Fixture!Skip(p))
      BY <1>3 DEF Fixture!Delete, Fixture!Others, Fixture!processes, Fixture!Own
    <2>2. Takes(p)
      BY <2>1 DEF Takes, FixtureInv, FixtureTyped, Markers, Papers
    <2>3. Moves(p) /\ fixtureEntry'[p].run = Old
          /\ (fixtureAt'[p] = "over" \/ (fixtureEntry[p].run # p /\ fixtureAt'[p] = "scan"))
      BY <2>1, EndGoes, SkipGoes
    <2>4. fixtureEntry[p].run # p => place'[p] = place[p]
      BY <2>2, TakenPlace, OldIsNoRun
    <2>5. RunGuarded(p)'
      BY <1>1, <2>1, <2>3, <2>4 DEF RunGuarded, Guarded, Unmade, Removes, Knows
    <2>6. Knows(p, fixtureEntry[p].run)'
      BY <2>2, <2>3, TakenOld, KnowsNothing
    <2> QED BY <2>2, <2>3, <2>5, <2>6, RemoverSteps
  <1>4. CASE Fixture!DeleteFails(p)
    <2>1. /\ fixtureAt[p] = "delete"
          /\ place' \in {place, [place EXCEPT ![fixtureEntry[p].run] = "run"]}
          /\ fixtureLease' \in {fixtureLease, [fixtureLease EXCEPT ![fixtureEntry[p].run] = "none"]}
          /\ marker' \in {marker, [marker EXCEPT ![fixtureEntry[p].run] = "none"]}
          /\ Fixture!Throw(p)
          /\ UNCHANGED <<pending, keeper, stopping, validator>>
      BY <1>4 DEF Fixture!DeleteFails, Fixture!processes
    <2>2. Takes(p)
      BY <2>1, OldIsNoRun DEF Takes, FixtureInv, FixtureTyped, Markers, Papers
    <2>3. Moves(p)
      BY <2>1, ThrowGoes
    <2>4. place'[p] = place[p] \/ (fixtureEntry[p].run = p /\ ~ pending[p])
      BY <1>1, <2>1, <2>2, TakenPlace, OldIsNoRun DEF Knows
    <2>5. RunGuarded(p)' /\ Knows(p, fixtureEntry[p].run)'
      BY <2>1, <2>2, <2>4, TakenOld, TakenPlace, ThrowGuarded
    <2> QED BY <2>2, <2>3, <2>5, RemoverSteps
  <1> QED BY <1>2, <1>3, <1>4

----------------------------------------------------------------------------
(* Validators that stop.                                                   *)

LEMMA StopKeeps ==
  ASSUME FixtureInv, NEW p \in Runs, Fixture!TerminateStale(p)
  PROVE  FixtureInv'
  <1> USE DEF Looking, Removing, Starting, Watching
  <1>1. RunGuarded(p) /\ Knows(p, fixtureEntry[p].run) /\ OldSound
    BY DEF FixtureInv, FixtureSound
  <1>2. /\ fixtureAt[p] = "terminate" /\ Fixture!Goto(p, "validate")
        /\ UNCHANGED <<place, fixtureLease, marker, pending, keeper, stopping, fixtureTodo, fixtureEntry>>
        /\ \/ /\ ~ (fixtureEntry[p].registered /\ validator[fixtureEntry[p].run] = "alive")
              /\ UNCHANGED validator
           \/ validator' = [validator EXCEPT ![fixtureEntry[p].run] = "stopped"]
    BY DEF Fixture!TerminateStale, Fixture!files, Fixture!Hand
  <1>3. Moves(p) /\ fixtureAt'[p] = "validate" /\ fixtureEntry'[p] = fixtureEntry[p]
    BY <1>2, Goes DEF FixtureAwaits
  <1>4. fixtureEntry[p].run \in Fixture!Directories
    BY DEF FixtureInv, FixtureTyped, FixtureEntries
  <1>5. FixtureTyped'
    BY <1>2, <1>3, <1>4 DEF FixtureInv, FixtureTyped, Moves
  <1>6. \A q \in Fixture!Directories : Halted(q)
    BY <1>2, <1>4 DEF FixtureInv, FixtureTyped, Halted
  <1>7. FixtureProgress
    BY <1>2, <1>3, <1>6, OldIsNoRun DEF FixtureInv, FixtureTyped, FixtureProgress, Moves, RunnerKept, Halted
  <1>8. OldSound'
    BY <1>1, <1>2, <1>6, OldIsNoRun DEF OldSound, Halted
  <1>9. fixtureEntry[p].run = Old => validator'[Old] # "alive"
    BY <1>1, <1>2, <1>4 DEF FixtureInv, FixtureTyped, Knows
  <1>10. RunGuarded(p)'
    BY <1>1, <1>2, <1>3, <1>6, OldIsNoRun DEF RunGuarded, Guarded, Unmade, Removes, Knows, Halted
  <1>11. Knows(p, fixtureEntry[p].run)'
    BY <1>1, <1>2, <1>3, <1>9, OldIsNoRun DEF Knows, Moves, RunnerKept
  <1>12. \A r \in Runs \ {p} : RunnerKept(r) /\ KeeperKept(r) /\ Halted(r)
    BY <1>2, <1>3, <1>6, OldIsNoRun DEF Moves, KeeperKept
  <1> QED BY <1>2, <1>5, <1>7, <1>8, <1>10, <1>11, <1>12, RunSteps

----------------------------------------------------------------------------
(* From the directory to the start, and the stop.                          *)

Making == Starting \cup Watching \cup {"cleanup"}

\* A runner whose directory is there goes from one await to another.
LEMMA OwnerGuarded ==
  ASSUME FixtureInv, NEW p \in Runs, fixtureAt[p] \in Starting \cup Watching, FilesStay,
         fixtureAt'[p] \in Making, fixtureEntry'[p] = fixtureEntry[p],
         fixtureAt'[p] \in Starting => fixtureAt[p] \in Starting \/ keeper[p] # "alive",
         fixtureAt'[p] \in {"reserve-record", "fork"} => pending[p]
  PROVE  RunGuarded(p)' /\ Knows(p, fixtureEntry[p].run)'
  <1> USE DEF Making, Looking, Removing, Starting, Watching
  <1>1. RunGuarded(p) /\ Knows(p, fixtureEntry[p].run)
    BY DEF FixtureInv, FixtureSound
  <1>2. RunGuarded(p)'
    BY <1>1 DEF RunGuarded, Guarded, Unmade, Removes, FilesStay, Taken
  <1> QED BY <1>1, <1>2 DEF Knows, FilesStay

LEMMA StartKeeps ==
  ASSUME FixtureInv, NEW p \in Runs,
         \/ Fixture!WriteLease(p) \/ Fixture!InitializeCustody(p) \/ Fixture!FailToStart(p)
         \/ Fixture!ReserveRecord(p) \/ Fixture!Learn(p) \/ Fixture!SendAcknowledge(p)
         \/ Fixture!Survive(p) \/ Fixture!Stop(p)
  PROVE  FixtureInv'
  <1> USE DEF Making, FixtureAwaits, Starting, Watching, Fixture!Others, Fixture!processes
  <1>1. RunGuarded(p)
    BY DEF FixtureInv, FixtureSound
  <1>2. FilesStay
    <2>1. CASE Fixture!WriteLease(p)
      BY <2>1, OldIsNoRun DEF FixtureInv, FixtureTyped, FilesStay, Markers, Papers, Fixture!WriteLease
    <2>2. CASE Fixture!InitializeCustody(p)
      BY <2>2 DEF FixtureInv, FixtureTyped, FilesStay, Markers, Papers, Fixture!InitializeCustody
    <2>3. CASE Fixture!ReserveRecord(p)
      BY <2>3 DEF FixtureInv, FixtureTyped, FilesStay, Markers, Papers, Fixture!ReserveRecord
    <2>4. CASE \/ Fixture!FailToStart(p) \/ Fixture!Learn(p) \/ Fixture!SendAcknowledge(p)
               \/ Fixture!Survive(p) \/ Fixture!Stop(p)
      BY <2>4, UnchangedFilesStay DEF Fixture!FailToStart, Fixture!Learn, Fixture!SendAcknowledge,
         Fixture!Survive, Fixture!Stop
    <2> QED BY <2>1, <2>2, <2>3, <2>4
  <1>3. PICK a \in Making :
          /\ Fixture!Goto(p, a) /\ UNCHANGED <<fixtureTodo, fixtureEntry>>
          /\ fixtureAt[p] \in Starting \cup Watching
          /\ a \in Starting => fixtureAt[p] \in Starting
          /\ a = "reserve-record" => FALSE
          /\ a = "fork" => fixtureAt[p] = "reserve-record"
    <2>1. CASE Fixture!WriteLease(p)
      BY <2>1 DEF Fixture!WriteLease, Fixture!Hand
    <2>2. CASE Fixture!InitializeCustody(p)
      BY <2>2 DEF Fixture!InitializeCustody, Fixture!Hand
    <2>3. CASE Fixture!ReserveRecord(p)
      BY <2>3 DEF Fixture!ReserveRecord, Fixture!Hand
    <2>4. CASE Fixture!FailToStart(p)
      BY <2>4 DEF Fixture!FailToStart, Fixture!CleanUp
    <2>5. CASE Fixture!Learn(p)
      BY <2>5 DEF Fixture!Learn
    <2>6. CASE Fixture!SendAcknowledge(p)
      BY <2>6 DEF Fixture!SendAcknowledge, Fixture!Hand
    <2>7. CASE Fixture!Survive(p)
      BY <2>7 DEF Fixture!Survive, Fixture!Hand
    <2>8. CASE Fixture!Stop(p)
      BY <2>8 DEF Fixture!Stop
    <2> QED BY <2>1, <2>2, <2>3, <2>4, <2>5, <2>6, <2>7, <2>8
  <1>4. fixtureAt'[p] = a /\ fixtureEntry'[p] = fixtureEntry[p]
    BY <1>3, Goes
  <1>5. RunGuarded(p)' /\ Knows(p, fixtureEntry[p].run)'
    BY <1>1, <1>2, <1>3, <1>4, OwnerGuarded DEF RunGuarded
  <1> QED BY <1>2, <1>3, <1>5, RunnerGoesOn

\* The registration of a validator changes the lease alone.
LEMMA RegisterKeeps ==
  ASSUME FixtureInv, NEW p \in Runs, Fixture!Truncate(p) \/ Fixture!Register(p)
  PROVE  FixtureInv'
  <1>1. /\ UNCHANGED <<place, marker, pending, fixtureAt, fixtureTodo, fixtureEntry, keeper, stopping, validator>>
        /\ fixtureLease' \in Papers /\ fixtureLease'[Old] = fixtureLease[Old] /\ fixtureAt[p] # "over"
    BY OldIsNoRun DEF FixtureInv, FixtureTyped, Papers, Fixture!Truncate, Fixture!Register, Fixture!Alive,
       Fixture!Others, Fixture!processes
  <1>2. FilesStay /\ Moves(p)
    BY <1>1 DEF FixtureInv, FixtureTyped, FilesStay, Moves, RunnerKept, Markers
  <1>3. RunGuarded(p)' /\ Knows(p, fixtureEntry[p].run)'
    BY <1>1 DEF FixtureInv, FixtureSound, RunGuarded, Guarded, Unmade, Removes, Knows
  <1> QED BY <1>1, <1>2, <1>3, RunnerSteps DEF FilesStay

LEMMA StopsKeep ==
  ASSUME FixtureInv, NEW p \in Runs, Fixture!StopConfirmed(p) \/ Fixture!StopUnconfirmed(p)
  PROVE  FixtureInv'
  <1> USE DEF Making, FixtureAwaits, Starting, Watching, Fixture!Others, Fixture!processes
  <1>1. FilesStay /\ fixtureAt[p] = "stopping"
    BY UnchangedFilesStay DEF Fixture!StopConfirmed, Fixture!StopUnconfirmed
  <1>2. CASE Fixture!End(p)
    BY <1>1, <1>2, RunnerEnds
  <1>3. CASE /\ Fixture!StopConfirmed(p)
             /\ Fixture!Goto(p, "reserve") \/ Fixture!Goto(p, "cleanup")
             /\ UNCHANGED <<fixtureTodo, fixtureEntry>>
    <2>1. PICK a \in {"reserve", "cleanup"} : Fixture!Goto(p, a)
      BY <1>3
    <2>2. fixtureAt'[p] = a /\ fixtureEntry'[p] = fixtureEntry[p]
      BY <1>3, <2>1, Goes
    <2>3. keeper[p] # "alive"
      BY <1>3 DEF Fixture!StopConfirmed
    <2>4. RunGuarded(p)' /\ Knows(p, fixtureEntry[p].run)'
      BY <1>1, <2>1, <2>2, <2>3, OwnerGuarded
    <2> QED BY <1>1, <1>3, <2>1, <2>4, RunnerGoesOn
  <1>4. Fixture!StopUnconfirmed(p) => Fixture!End(p)
    BY DEF Fixture!StopUnconfirmed
  <1>5. Fixture!StopConfirmed(p) =>
          \/ Fixture!End(p)
          \/ /\ Fixture!Goto(p, "reserve") \/ Fixture!Goto(p, "cleanup")
             /\ UNCHANGED <<fixtureTodo, fixtureEntry>>
    BY DEF Fixture!StopConfirmed, Fixture!CleanUp
  <1> QED BY <1>2, <1>3, <1>4, <1>5

\* The directory, the guard of its record, and the supervisor.
LEMMA MakeKeeps ==
  ASSUME FixtureInv, NEW p \in Runs, Fixture!Create(p) \/ Fixture!Reserve(p) \/ Fixture!Fork(p)
  PROVE  FixtureInv'
  <1> USE DEF Making, FixtureAwaits, Looking, Removing, Starting, Watching, Fixture!Others, Fixture!processes
  <1>1. RunGuarded(p) /\ Knows(p, fixtureEntry[p].run) /\ OldSound
    BY DEF FixtureInv, FixtureSound
  <1>2. p \in Fixture!Directories /\ p # Old
    BY OldIsNoRun
  <1>3. CASE Fixture!Create(p)
    <2>1. /\ fixtureAt[p] = "scan" /\ Fixture!Goto(p, "lease") /\ place' = [place EXCEPT ![p] = "run"]
          /\ UNCHANGED <<fixtureLease, marker, pending, fixtureTodo, fixtureEntry, keeper, stopping, validator>>
      BY <1>3 DEF Fixture!Create, Fixture!Hand
    <2>2. Moves(p) /\ fixtureAt'[p] = "lease" /\ fixtureEntry'[p] = fixtureEntry[p]
      BY <2>1, Goes
    <2>3. \A q \in Fixture!Directories : place'[q] = IF q = p THEN "run" ELSE place[q]
      BY <2>1 DEF FixtureInv, FixtureTyped
    <2>4. FixtureTyped'
      BY <2>1, <2>2 DEF FixtureInv, FixtureTyped, Moves, Places
    <2>5. FixtureProgress
      BY <2>1, <2>2, <2>3 DEF FixtureProgress, Moves, RunnerKept
    <2>6. OldSound'
      BY <1>1, <1>2, <2>1, <2>3, OldIsNoRun DEF OldSound
    <2>7. RunGuarded(p)'
      BY <1>1, <1>2, <2>1, <2>2, <2>3 DEF RunGuarded, Guarded, Unmade, Removes, Taken
    <2>8. Knows(p, fixtureEntry[p].run)'
      BY <1>1, <2>1, <2>2, <2>5 DEF FixtureInv, FixtureTyped, FixtureEntries, FixtureProgress, Knows
    <2>9. \A r \in Runs \ {p} : RunnerKept(r) /\ KeeperKept(r) /\ Halted(r) /\ place'[r] = place[r]
      BY <2>1, <2>2, <2>3, OldIsNoRun DEF Moves, KeeperKept, Halted
    <2> QED BY <2>1, <2>4, <2>5, <2>6, <2>7, <2>8, <2>9, RunSteps
  <1>4. CASE Fixture!Reserve(p)
    <2>1. /\ fixtureAt[p] = "reserve" /\ Fixture!Goto(p, "reserve-record")
          /\ pending' = [pending EXCEPT ![p] = TRUE]
          /\ UNCHANGED <<place, fixtureLease, marker, fixtureTodo, fixtureEntry, keeper, stopping, validator>>
      BY <1>4 DEF Fixture!Reserve, Fixture!Hand
    <2>2. Moves(p) /\ fixtureAt'[p] = "reserve-record" /\ fixtureEntry'[p] = fixtureEntry[p]
      BY <2>1, Goes
    <2>3. pending'[p] /\ \A q \in Fixture!Directories \ {p} : pending'[q] = pending[q]
      BY <1>2, <2>1 DEF FixtureInv, FixtureTyped
    <2>4. FixtureTyped'
      BY <2>1, <2>2 DEF FixtureInv, FixtureTyped, Moves
    <2>5. FixtureProgress
      <3>1. \A q \in Runs : ~ pending[q] => ~ pending'[q] \/ fixtureAt[q] = "reserve"
        BY <2>1, <2>3, OldIsNoRun
      <3> QED BY <2>1, <2>2, <3>1 DEF FixtureProgress, Moves, RunnerKept
    <2>6. OldSound'
      BY <1>1, <2>1 DEF OldSound
    <2>7. RunGuarded(p)'
      BY <1>1, <2>1, <2>2, <2>3 DEF RunGuarded, Guarded, Unmade, Removes, Taken
    <2>8. Knows(p, fixtureEntry[p].run)'
      BY <1>1, <2>1, <2>2 DEF Knows
    <2>9. \A r \in Runs \ {p} : RunnerKept(r) /\ KeeperKept(r) /\ Halted(r) /\ pending'[r] = pending[r]
      BY <2>1, <2>2, <2>3, OldIsNoRun DEF Moves, KeeperKept, Halted
    <2> QED BY <2>1, <2>4, <2>5, <2>6, <2>7, <2>8, <2>9, RunSteps
  <1>5. CASE Fixture!Fork(p)
    <2>1. /\ fixtureAt[p] = "fork" /\ Fixture!Goto(p, "await") /\ keeper' = [keeper EXCEPT ![p] = "alive"]
          /\ UNCHANGED <<place, fixtureLease, marker, pending, fixtureTodo, fixtureEntry, stopping, validator>>
      BY <1>5 DEF Fixture!Fork, Fixture!files
    <2>2. Moves(p) /\ fixtureAt'[p] = "await" /\ fixtureEntry'[p] = fixtureEntry[p]
      BY <2>1, Goes
    <2>4. FixtureTyped'
      BY <2>1, <2>2 DEF FixtureInv, FixtureTyped, Moves
    <2>5. FixtureProgress
      BY <2>1, <2>2 DEF FixtureProgress, Moves, RunnerKept
    <2>6. OldSound'
      BY <1>1, <2>1 DEF OldSound
    <2>7. RunGuarded(p)'
      BY <1>1, <2>1, <2>2 DEF RunGuarded, Guarded, Unmade, Removes, Taken
    <2>8. Knows(p, fixtureEntry[p].run)'
      BY <1>1, <2>1, <2>2 DEF Knows
    <2>9. \A r \in Runs \ {p} : RunnerKept(r) /\ KeeperKept(r) /\ Halted(r)
      BY <2>1, <2>2 DEF FixtureInv, FixtureTyped, Moves, KeeperKept, Halted
    <2> QED BY <2>1, <2>4, <2>5, <2>6, <2>7, <2>8, <2>9, RunSteps
  <1> QED BY <1>3, <1>4, <1>5

----------------------------------------------------------------------------
(* The supervisors, and what kills.                                        *)

\* A step of p's supervisor: it may clear the guard, once it has settled.
LEMMA KeeperSteps ==
  ASSUME FixtureInv, NEW p \in Runs, FixtureTyped',
         UNCHANGED <<place, fixtureLease, fixtureAt, fixtureTodo, fixtureEntry>>,
         \A q \in Fixture!Directories \ {p} : pending'[q] = pending[q] /\ validator'[q] = validator[q],
         \A r \in Runs \ {p} : KeeperKept(r),
         pending'[p] => pending[p], ~ pending'[p] => ~ pending[p] \/ keeper[p] = "alive",
         keeper'[p] = "alive" => keeper[p] = "alive", Guarded(p)'
  PROVE  FixtureInv'
  <1>1. RunGuarded(p) /\ Knows(p, fixtureEntry[p].run) /\ OldSound
    BY DEF FixtureInv, FixtureSound
  <1>2. \A q \in Runs : ~ pending[q] => ~ pending'[q]
    BY OldIsNoRun
  <1>3. validator'[Old] = validator[Old]
    BY OldIsNoRun
  <1>4. FixtureProgress /\ OldSound'
    BY <1>1, <1>2, <1>3 DEF FixtureProgress, OldSound
  <1>5. RunGuarded(p)'
    BY <1>1 DEF RunGuarded, Unmade, Removes, Looking, Removing, Starting, Watching
  <1>6. RunnerKept(p)
    BY DEF RunnerKept
  <1>7. Knows(p, fixtureEntry[p].run)'
    BY <1>1, <1>4, <1>6, KnowledgeStays DEF FixtureInv
  <1>8. \A r \in Runs \ {p} : RunnerKept(r) /\ KeeperKept(r) /\ Halted(r) /\ pending'[r] = pending[r]
    BY OldIsNoRun DEF RunnerKept, Halted
  <1> QED BY <1>4, <1>5, <1>7, <1>8, RunSteps

LEMMA FixtureSuperviseKeeps ==
  ASSUME FixtureInv, NEW p \in Runs, Fixture!Supervise(p)
  PROVE  FixtureInv'
  <1> USE DEF Fixture!Supervising, Fixture!Rest, Fixture!files, Fixture!runner, Fixture!Begin, Fixture!Halt,
              Fixture!Leave, KeeperKept, Guarded
  <1>1. Guarded(p) /\ p \in Fixture!Directories
    BY OldIsNoRun DEF FixtureInv, FixtureSound, RunGuarded
  <1>2. UNCHANGED <<place, fixtureLease, fixtureAt, fixtureTodo, fixtureEntry>> /\ keeper[p] = "alive"
    BY DEF Fixture!Supervise, Fixture!ReceiveStart, Fixture!Acquire, Fixture!Spawn, Fixture!Capture,
       Fixture!Close, Fixture!StopValidator, Fixture!Settle, Fixture!Clear, Fixture!Exit, Fixture!SettleFails
  <1>3. CASE Fixture!ReceiveStart(p) \/ Fixture!Capture(p)
    <2>1. UNCHANGED <<marker, pending, keeper, stopping, validator>>
      BY <1>3 DEF Fixture!ReceiveStart, Fixture!Capture
    <2>2. FixtureTyped'
      BY <1>2, <2>1 DEF FixtureInv, FixtureTyped
    <2> QED BY <1>1, <1>2, <2>1, <2>2, KeeperSteps
  <1>4. CASE Fixture!Acquire(p)
    <2>1. marker' = [marker EXCEPT ![p] = "acquired"] /\ UNCHANGED <<pending, keeper, stopping, validator>>
      BY <1>4 DEF Fixture!Acquire
    <2>2. FixtureTyped'
      BY <1>2, <2>1 DEF FixtureInv, FixtureTyped
    <2> QED BY <1>1, <1>2, <2>1, <2>2, KeeperSteps
  <1>5. CASE Fixture!Spawn(p)
    <2>1. /\ stopping[p] = "no" /\ validator' = [validator EXCEPT ![p] = "alive"]
          /\ UNCHANGED <<marker, pending, keeper, stopping>>
      BY <1>5 DEF Fixture!Spawn, Fixture!MaySpawn
    <2>2. FixtureTyped'
      BY <1>2, <2>1 DEF FixtureInv, FixtureTyped
    <2>3. \A q \in Fixture!Directories \ {p} : validator'[q] = validator[q]
      BY <2>1 DEF FixtureInv, FixtureTyped
    <2>4. Guarded(p)'
      BY <1>1, <1>2, <2>1
    <2> QED BY <1>2, <2>1, <2>2, <2>3, <2>4, KeeperSteps
  <1>6. CASE Fixture!Close(p)
    <2>1. stopping[p] = "no" /\ stopping' = [stopping EXCEPT ![p] = "closing"]
          /\ UNCHANGED <<marker, pending, keeper, validator>>
      BY <1>6 DEF Fixture!Close
    <2>2. FixtureTyped' /\ stopping'[p] = "closing" /\ \A r \in Runs \ {p} : KeeperKept(r)
      BY <1>2, <2>1 DEF FixtureInv, FixtureTyped, Halts
    <2>3. Guarded(p)'
      BY <1>1, <1>2, <2>1, <2>2
    <2> QED BY <1>2, <2>1, <2>2, <2>3, KeeperSteps
  <1>7. CASE Fixture!StopValidator(p)
    <2>1. /\ stopping[p] = "closing" /\ UNCHANGED <<marker, pending, keeper>>
          /\ \/ /\ stopping' = [stopping EXCEPT ![p] = "settling"]
                /\ validator' = [validator EXCEPT ![p] = IF @ = "alive" THEN "stopped" ELSE @]
             \/ stopping' = [stopping EXCEPT ![p] = "stuck"] /\ UNCHANGED validator
      BY <1>7 DEF Fixture!StopValidator
    <2>2. PICK s \in {"settling", "stuck"}, v \in {"none", "alive", "stopped"} :
            /\ stopping' = [stopping EXCEPT ![p] = s] /\ validator' = [validator EXCEPT ![p] = v]
            /\ s = "settling" => v # "alive"
      <3>1. validator[p] \in {"none", "alive", "stopped"} /\ validator = [validator EXCEPT ![p] = validator[p]]
        BY <1>1 DEF FixtureInv, FixtureTyped
      <3> QED BY <2>1, <3>1
    <2>3. /\ FixtureTyped' /\ stopping'[p] = s /\ validator'[p] = v
          /\ \A r \in Runs \ {p} : KeeperKept(r)
          /\ \A q \in Fixture!Directories \ {p} : validator'[q] = validator[q]
      BY <1>1, <1>2, <2>1, <2>2 DEF FixtureInv, FixtureTyped, Halts
    <2>4. Guarded(p)'
      BY <1>1, <1>2, <2>1, <2>2, <2>3
    <2> QED BY <1>2, <2>1, <2>3, <2>4, KeeperSteps
  <1>8. CASE Fixture!Settle(p)
    <2>1. /\ stopping[p] = "settling" /\ stopping' = [stopping EXCEPT ![p] = "settled"]
          /\ marker' = [marker EXCEPT ![p] = "settled"] /\ UNCHANGED <<pending, keeper, validator>>
      BY <1>8 DEF Fixture!Settle
    <2>2. FixtureTyped' /\ stopping'[p] = "settled" /\ \A r \in Runs \ {p} : KeeperKept(r)
      BY <1>2, <2>1 DEF FixtureInv, FixtureTyped, Halts
    <2>3. Guarded(p)'
      BY <1>1, <1>2, <2>1, <2>2
    <2> QED BY <1>2, <2>1, <2>2, <2>3, KeeperSteps
  <1>9. CASE Fixture!Clear(p)
    <2>1. /\ stopping[p] = "settled" /\ pending' = [pending EXCEPT ![p] = FALSE]
          /\ UNCHANGED <<marker, keeper, stopping, validator>>
      BY <1>9 DEF Fixture!Clear
    <2>2. /\ FixtureTyped' /\ ~ pending'[p]
          /\ \A q \in Fixture!Directories \ {p} : pending'[q] = pending[q]
      BY <1>1, <1>2, <2>1 DEF FixtureInv, FixtureTyped
    <2>3. Guarded(p)'
      BY <1>1, <1>2, <2>1, <2>2
    <2> QED BY <1>2, <2>1, <2>2, <2>3, KeeperSteps
  <1>10. CASE Fixture!Exit(p) \/ Fixture!SettleFails(p)
    <2>1. /\ keeper' = [keeper EXCEPT ![p] = "exited"] /\ stopping' = [stopping EXCEPT ![p] = "no"]
          /\ marker' \in {marker, [marker EXCEPT ![p] = "settled"]} /\ UNCHANGED <<pending, validator>>
      BY <1>10 DEF Fixture!Exit, Fixture!SettleFails
    <2>2. /\ FixtureTyped' /\ keeper'[p] = "exited" /\ stopping'[p] = "no"
          /\ \A r \in Runs \ {p} : KeeperKept(r)
      BY <1>2, <2>1 DEF FixtureInv, FixtureTyped, Halts
    <2>3. Guarded(p)'
      BY <1>1, <1>2, <2>1, <2>2
    <2> QED BY <1>2, <2>1, <2>2, <2>3, KeeperSteps
  <1> QED BY <1>3, <1>4, <1>5, <1>6, <1>7, <1>8, <1>9, <1>10 DEF Fixture!Supervise

LEMMA FixtureKillKeeps ==
  ASSUME FixtureInv, NEW p \in Runs, Fixture!Kill(p)
  PROVE  FixtureInv'
  <1> USE DEF Fixture!files
  <1>1. UNCHANGED <<place, fixtureLease, marker, pending, validator>>
    BY DEF Fixture!Kill
  <1>2. CASE Fixture!Alive(p) /\ Fixture!End(p) /\ UNCHANGED <<keeper, starting, stopping>>
    <2>1. FilesStay
      BY <1>1, <1>2, UnchangedFilesStay
    <2> QED BY <1>2, <2>1, RunnerEnds DEF Fixture!Alive
  <1>3. CASE Fixture!Supervising(p) /\ Fixture!Leave(p) /\ UNCHANGED Fixture!runner
    <2>1. /\ keeper[p] = "alive"
          /\ keeper' = [keeper EXCEPT ![p] = "exited"] /\ stopping' = [stopping EXCEPT ![p] = "no"]
          /\ UNCHANGED <<fixtureAt, fixtureTodo, fixtureEntry>>
      BY <1>3 DEF Fixture!Supervising, Fixture!Leave, Fixture!runner
    <2>2. /\ FixtureTyped' /\ keeper'[p] = "exited" /\ stopping'[p] = "no"
          /\ \A r \in Runs \ {p} : KeeperKept(r)
      BY <1>1, <2>1 DEF FixtureInv, FixtureTyped, Halts, KeeperKept
    <2>3. Guarded(p)'
      BY <1>1, <2>1, <2>2 DEF FixtureInv, FixtureSound, RunGuarded, Guarded
    <2> QED BY <1>1, <2>1, <2>2, <2>3, KeeperSteps
  <1> QED BY <1>2, <1>3 DEF Fixture!Kill

LEMMA ValidatorExitKeeps ==
  ASSUME FixtureInv, NEW q \in Fixture!Directories, Fixture!ValidatorExits(q)
  PROVE  FixtureInv'
  <1>1. /\ UNCHANGED <<place, fixtureLease, marker, pending, fixtureAt, fixtureTodo, fixtureEntry, keeper, stopping>>
        /\ validator' = [validator EXCEPT ![q] = "stopped"]
    BY DEF Fixture!ValidatorExits, Fixture!files, Fixture!Rest, Fixture!runner
  <1>2. FixtureTyped'
    BY <1>1 DEF FixtureInv, FixtureTyped
  <1>3. \A d \in Fixture!Directories : Halted(d)
    BY <1>1 DEF FixtureInv, FixtureTyped, Halted
  <1>4. FixtureProgress /\ OldSound'
    BY <1>1, <1>3, OldIsNoRun DEF FixtureInv, FixtureSound, FixtureProgress, OldSound, Halted
  <1>5. ASSUME NEW p \in Runs
        PROVE  RunGuarded(p)' /\ Knows(p, fixtureEntry[p].run)'
    <2>1. RunnerKept(p) /\ KeeperKept(p) /\ Halted(p)
      BY <1>1, <1>3, OldIsNoRun DEF RunnerKept, KeeperKept
    <2> QED BY <1>1, <1>4, <2>1, RunStays, KnowledgeStays DEF FixtureInv, FixtureSound
  <1> QED BY <1>2, <1>4, <1>5 DEF FixtureInv, FixtureSound

----------------------------------------------------------------------------

LEMMA FixtureKeeps == FixtureInv /\ [Fixture!Next]_(Fixture!fixtureVars) => FixtureInv'
  <1> SUFFICES ASSUME FixtureInv, [Fixture!Next]_(Fixture!fixtureVars)
               PROVE  FixtureInv'
    OBVIOUS
  <1>1. ASSUME NEW p \in Runs, Fixture!Reclaim(p)
        PROVE  FixtureInv'
    BY <1>1, ScanKeeps, RemovalKeeps, StopKeeps, TakeKeeps DEF Fixture!Reclaim
  <1>2. ASSUME NEW p \in Runs, Fixture!Operate(p)
        PROVE  FixtureInv'
    BY <1>2, StartKeeps, RegisterKeeps, StopsKeep, MakeKeeps, RemovalKeeps DEF Fixture!Operate
  <1>3. CASE UNCHANGED Fixture!fixtureVars
    BY <1>3 DEF Fixture!fixtureVars, Fixture!files, Fixture!runner, Fixture!processes, FixtureInv, FixtureTyped,
       FixtureSound, OldSound, RunGuarded, Guarded, Unmade, Removes, Knows
  <1> QED BY <1>1, <1>2, <1>3, FixtureSuperviseKeeps, FixtureKillKeeps, ValidatorExitKeeps DEF Fixture!Next

\* What the runs of the Solana fixture know of each directory holds of its place, the
\* guard beside its record and its processes: for any number of runs, starts, kills and
\* failures.
THEOREM FixtureInvariant == FixtureSpec => []FixtureInv
  <1>1. FixtureSpec => Fixture!Init /\ [][Fixture!Next]_(Fixture!fixtureVars)
    <2>1. [Fixture!Next /\ UNCHANGED vars]_<<vars, Fixture!fixtureVars>> => [Fixture!Next]_(Fixture!fixtureVars)
      OBVIOUS
    <2> QED BY <2>1, PTL DEF FixtureSpec
  <1> QED BY <1>1, FixtureStarts, FixtureKeeps, PTL

\* No directory is taken away while its validator runs, or by another while its runner
\* does (claimRunQuarantine(), quarantineAndDeleteRun()): whoever is killed, spawns late,
\* or undoes a deletion that failed.
THEOREM RemovedMeansStopped == FixtureSpec => []RemovedIsStopped
  BY FixtureInvariant, InvariantRemoves, PTL
=============================================================================
