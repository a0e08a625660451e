-------------------------- MODULE TlsStartupProofs --------------------------
(***************************************************************************)
(* The pair of files is never left in a state the next start cannot use,   *)
(* but for the torn key, and a pair that loads is never overwritten: for   *)
(* any number of starts, crashes, environments and pairs.                  *)
(***************************************************************************)
EXTENDS TlsStartup, TLAPS

LEMMA SecondIsKey == FirstFile = "cert" /\ SecondFile = "key"
BY DEF FirstFile, SecondFile, Files

LEMMA InitInv == Init => Inv
BY DEF Init, Inv, TypeOK, Contents, Writing, Files

(* A start, and what it finds.                                             *)
LEMMA StartInv == Inv /\ Start => Inv'
BY DEF Inv, TypeOK, Start, GoTo, Writing, Contents

LEMMA ConfigureInv == Inv /\ Configure => Inv'
BY DEF Inv, TypeOK, Configure, GoTo, Writing

LEMMA EnsureInv == Inv /\ EnsureTLSCert => Inv'
<1> SUFFICES ASSUME Inv, EnsureTLSCert PROVE Inv'
  OBVIOUS
<1>1. /\ UNCHANGED <<env, files, unsynced, handled>>
      /\ Certmagic(env) = "disabled"
  BY DEF EnsureTLSCert, GoTo, Inv
<1>2. CASE ~IsPairMissing /\ GoTo("listen") /\ mode' = "files" /\ UNCHANGED pair
  <2>1. TypeOK'
    BY <1>1, <1>2 DEF Inv, TypeOK, GoTo
  <2>2. pc' = "listen"
    BY <1>2 DEF GoTo
  <2>3. ~IsPairMissing'
    BY <1>1, <1>2 DEF IsPairMissing
  <2> QED
    BY <1>1, <1>2, <2>1, <2>2, <2>3 DEF Inv, Writing
<1>3. CASE /\ IsPairMissing
           /\ \E fresh \in Pairs \ {files[file] : file \in Files} : pair' = fresh
           /\ GoTo("open first") /\ UNCHANGED mode
  <2>1. pair' \in Pairs /\ pair' # files["key"] /\ pc' = "open first"
    BY <1>3 DEF GoTo, Files
  <2>2. TypeOK'
    BY <1>1, <1>3, <2>1 DEF Inv, TypeOK, Contents, Writing
  <2>3. IsPairMissing'
    BY <1>1, <1>3 DEF IsPairMissing
  <2> QED
    BY <1>1, <2>1, <2>2, <2>3 DEF Inv, Writing
<1> QED
  BY <1>2, <1>3 DEF EnsureTLSCert

LEMMA ListenInv == Inv /\ Listen => Inv'
BY DEF Inv, TypeOK, Listen, GoTo, Writing

(* The writes.                                                             *)
LEMMA WriteType ==
  ASSUME TypeOK, NEW file \in Files, NEW content \in Contents, Write(file, content)
  PROVE  /\ files' \in [Files -> Contents] /\ unsynced' \in SUBSET Files
         /\ files'[file] = content
         /\ \A other \in Files \ {file} : files'[other] = files[other]
BY DEF TypeOK, Write

LEMMA OpenFirstInv == Inv /\ OpenFirst => Inv'
<1> SUFFICES ASSUME Inv, OpenFirst PROVE Inv'
  OBVIOUS
<1>1. /\ files' \in [Files -> Contents] /\ unsynced' \in SUBSET Files
      /\ files'["cert"] = "partial" /\ files'["key"] = files["key"]
  BY SecondIsKey, WriteType DEF OpenFirst, Inv, Contents, Files
<1>2. ~handled => files["key"] = "missing"
  BY TlsAssumption DEF Inv, OpenFirst, IsPairMissing, Files
<1>3. TypeOK'
  BY <1>1 DEF OpenFirst, GoTo, Write, Inv, TypeOK, Writing
<1> QED
  BY <1>1, <1>2, <1>3 DEF OpenFirst, GoTo, Write, Inv, Writing

LEMMA FillFirstInv == Inv /\ FillFirst => Inv'
<1> SUFFICES ASSUME Inv, FillFirst PROVE Inv'
  OBVIOUS
<1>1. /\ files' \in [Files -> Contents] /\ unsynced' \in SUBSET Files
      /\ files'["cert"] = pair /\ files'["key"] = files["key"] /\ pair \in Pairs
  BY SecondIsKey, WriteType DEF FillFirst, Inv, Contents, Files, Writing
<1>2. ~handled => files["key"] = "missing"
  BY TlsAssumption DEF Inv, FillFirst
<1>3. TypeOK'
  BY <1>1 DEF FillFirst, GoTo, Write, Inv, TypeOK, Writing
<1> QED
  BY <1>1, <1>2, <1>3 DEF FillFirst, GoTo, Write, Inv, Writing

LEMMA OpenSecondInv == Inv /\ OpenSecond => Inv'
<1> SUFFICES ASSUME Inv, OpenSecond PROVE Inv'
  OBVIOUS
<1>1. /\ files' \in [Files -> Contents] /\ unsynced' \in SUBSET Files
      /\ files'["key"] = "partial" /\ files'["cert"] = pair /\ pair \in Pairs
  BY SecondIsKey, WriteType DEF OpenSecond, Inv, Contents, Files, Writing
<1>2. TypeOK'
  BY <1>1 DEF OpenSecond, GoTo, Write, Inv, TypeOK, Writing
<1> QED
  BY <1>1, <1>2 DEF OpenSecond, GoTo, Write, Inv, Writing

LEMMA FillSecondInv == Inv /\ FillSecond => Inv'
<1> SUFFICES ASSUME Inv, FillSecond PROVE Inv'
  OBVIOUS
<1>1. /\ files' \in [Files -> Contents] /\ unsynced' \in SUBSET Files
      /\ files'["key"] = pair /\ files'["cert"] = pair /\ pair \in Pairs
  BY SecondIsKey, WriteType DEF FillSecond, Inv, Contents, Files, Writing
<1>2. TypeOK'
  BY <1>1 DEF FillSecond, GoTo, Write, Inv, TypeOK, Writing
<1>3. ~IsPairMissing' /\ Certmagic(env) = "disabled"
  BY <1>1, TlsAssumption DEF IsPairMissing, Files, FillSecond, Inv, Writing
<1> QED
  BY <1>1, <1>2, <1>3 DEF FillSecond, GoTo, Write, Inv, Writing

LEMMA StepInv == Inv /\ Step => Inv'
BY ConfigureInv, EnsureInv, ListenInv, OpenFirstInv, FillFirstInv, OpenSecondInv,
   FillSecondInv DEF Step

(* What happens to the program and its files.                              *)
LEMMA OutsideInv ==
  Inv /\ (Exit \/ HostCrash \/ WriteBack \/ Reconfigure \/ Mount) => Inv'
<1> SUFFICES ASSUME Inv, Exit \/ HostCrash \/ WriteBack \/ Reconfigure \/ Mount
             PROVE  Inv'
  OBVIOUS
<1>1. CASE Exit
  BY <1>1 DEF Exit, Inv, TypeOK, Writing
<1>2. CASE HostCrash
  BY <1>2 DEF HostCrash, Inv, TypeOK, Writing
<1>3. CASE WriteBack
  BY <1>3 DEF WriteBack, Inv, TypeOK, IsPairMissing
<1>4. CASE Reconfigure
  BY <1>4 DEF Reconfigure, Inv, TypeOK, Writing
<1>5. CASE Mount
  BY <1>5 DEF Mount, Inv, TypeOK, Writing
<1> QED
  BY <1>1, <1>2, <1>3, <1>4, <1>5

LEMMA NextInv == Inv /\ [Next]_vars => Inv'
<1> SUFFICES ASSUME Inv, [Next]_vars PROVE Inv'
  OBVIOUS
<1>1. CASE UNCHANGED vars
  BY <1>1 DEF vars, Inv, TypeOK, IsPairMissing
<1> QED
  BY <1>1, StartInv, StepInv, OutsideInv DEF Next

(* The inductive invariant holds in every reachable state.                 *)
THEOREM Invariance == Spec => []Inv
BY InitInv, NextInv, PTL DEF Spec

-----------------------------------------------------------------------------
(* generateSelfSigned writes the certificate first: interrupted anywhere    *)
(* but inside the write of the key, it leaves what ensureTLSCert or         *)
(* ListenAndServeTLS can use.                                               *)
THEOREM OnlyTheKeyTears == Spec => []StuckOnlyByTornKey
<1>1. Inv => StuckOnlyByTornKey
  BY DEF Inv, StuckOnlyByTornKey, Usable, Loads
<1> QED
  BY <1>1, Invariance, PTL

(* ensureTLSCert leaves every pair alone that ListenAndServeTLS can load.  *)
THEOREM PairIsKept == Spec => PairKept
<1>1. Inv /\ [Next]_vars => [Loads /\ Step => UNCHANGED files]_vars
  <2> SUFFICES ASSUME Inv, Loads, Step PROVE UNCHANGED files
    OBVIOUS
  <2>1. ~IsPairMissing
    BY TlsAssumption DEF Loads, IsPairMissing, Files
  <2>2. pc \notin Writing
    BY <2>1, TlsAssumption DEF Loads, Inv, Writing
  <2> QED
    BY <2>2 DEF Step, Configure, EnsureTLSCert, Listen, OpenFirst, FillFirst,
                OpenSecond, FillSecond, Writing
<1> QED
  BY <1>1, Invariance, PTL DEF Spec, PairKept

(* main gets to listening only with what it listens with: the two files, or *)
(* certmagic.                                                              *)
THEOREM StartsFailForCause == Spec => OnlyHopelessStartsFail
<1>1. Inv /\ [Next]_vars => [Step /\ pc' = "down" => ~Startable]_vars
  <2> SUFFICES ASSUME Inv, Step, pc' = "down" PROVE ~Startable
    OBVIOUS
  <2>1. Configure \/ Listen
    BY DEF Step, EnsureTLSCert, OpenFirst, FillFirst, OpenSecond, FillSecond, GoTo
  <2>2. CASE Configure
    BY <2>2 DEF Configure, GoTo, Startable
  <2>3. CASE Listen
    <3>1. mode # "certmagic" /\ ~Loads
      BY <2>3 DEF Listen, GoTo
    <3>2. Certmagic(env) = "disabled" /\ ~IsPairMissing
      BY <2>3, <3>1 DEF Listen, Inv
    <3> QED
      BY <3>1, <3>2 DEF Startable, Usable, IsPairMissing, Files
  <2> QED
    BY <2>1, <2>2, <2>3
<1> QED
  BY <1>1, Invariance, PTL DEF Spec, OnlyHopelessStartsFail
=============================================================================
