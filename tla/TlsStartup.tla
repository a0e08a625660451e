----------------------------- MODULE TlsStartup -----------------------------
(***************************************************************************)
(* How the server comes to listen: main of main.go with certmagicTLSConfig *)
(* and ensureTLSCert of tls.go.  Certmagic is asked for certificates, or a *)
(* pair of files is loaded, which the program writes itself if one is      *)
(* missing.  The two files are written one after the other, each truncated *)
(* and then filled, and any step may be the last: an error, a crash of the *)
(* process, or of the host, which loses what was not yet on disk.  Docker  *)
(* starts the program again ("restart: always" of docker-compose.yml).     *)
(***************************************************************************)
EXTENDS Integers, Sequences

CONSTANTS
  Pairs,           \* certificates with their keys
  Domains,         \* domain names
  Blank,           \* an empty element of a comma separated list
  Unset,           \* an environment variable that is not set
  NoNumber,        \* a port that is no number
  Environments     \* the environments the container is created with

ASSUME TlsAssumption ==
  /\ Blank \notin Domains
  /\ Environments \subseteq
       [CERTMAGIC_ENABLE        : {"unset", "yes", "no"},   \* yes: 1, true or yes
        CERTMAGIC_DOMAINS       : Seq(Domains \cup {Blank}),  \* split at commas
        CERTMAGIC_CA_ROOT       : {"unset", "certificates", "unusable"},
        CERTMAGIC_HTTP_PORT     : Int \cup {Unset, NoNumber},
        CERTMAGIC_TLS_ALPN_PORT : Int \cup {Unset, NoNumber}]
  /\ "missing" \notin Pairs /\ "partial" \notin Pairs

Files == {"cert", "key"}
Contents == {"missing", "partial"} \cup Pairs

-----------------------------------------------------------------------------
(* The configuration.                                                      *)

GetEnvBool(value, default) == IF value = "unset" THEN default ELSE value = "yes"

SplitCommaList(raw) == SelectSeq(raw, LAMBDA part : part # Blank)

IsInvalidPort(raw) == raw # Unset /\ raw \notin 1..65535

(* What certmagicTLSConfig makes of the environment, as far as it depends  *)
(* on the environment only.                                                *)
Certmagic(e) ==
  LET enabled == GetEnvBool(e.CERTMAGIC_ENABLE, FALSE)
      domains == SplitCommaList(e.CERTMAGIC_DOMAINS)
  IN  CASE ~enabled /\ domains = <<>> -> "disabled"
        [] enabled /\ domains = <<>>  -> "error"
        [] domains # <<>> ->
             IF \/ IsInvalidPort(e.CERTMAGIC_HTTP_PORT)
                \/ IsInvalidPort(e.CERTMAGIC_TLS_ALPN_PORT)
                \/ e.CERTMAGIC_CA_ROOT = "unusable"
             THEN "error" ELSE "enabled"

-----------------------------------------------------------------------------
VARIABLES
  env,           \* the environment of the container
  files,         \* the two files under /certs
  unsynced,      \* those whose content is not yet on disk
  pc,            \* where the program is
  mode,          \* where its certificate comes from
  pair,          \* the pair it has generated
  handled        \* history: an operator or a host crash changed the files

vars == <<env, files, unsynced, pc, mode, pair, handled>>

Writing == {"open first", "fill first", "open second", "fill second"}

TypeOK ==
  /\ env \in Environments
  /\ files \in [Files -> Contents]
  /\ unsynced \in SUBSET Files
  /\ pc \in {"down", "configure", "ensure", "listen", "serving"} \cup Writing
  /\ mode \in {"none", "certmagic", "files"}
  /\ pair \in Contents
  /\ handled \in BOOLEAN

Init ==
  /\ env \in Environments
  /\ files = [file \in Files |-> "missing"]
  /\ unsynced = {}
  /\ pc = "down"
  /\ mode = "none"
  /\ pair = "missing"
  /\ handled = FALSE

-----------------------------------------------------------------------------
(* The program.                                                            *)

GoTo(next) ==
  /\ pc' = next
  /\ UNCHANGED <<env, handled>>

Start ==
  /\ pc = "down"
  /\ GoTo("configure")
  /\ mode' = "none" /\ pair' = "missing"
  /\ UNCHANGED <<files, unsynced>>

(* log.Fatal on an environment in error, on to certmagic's certificates,   *)
(* or on to the files.  (Certmagic not obtaining them is an Exit.)         *)
Configure ==
  /\ pc = "configure"
  /\ \/ Certmagic(env) = "error" /\ GoTo("down") /\ UNCHANGED mode
     \/ Certmagic(env) = "enabled" /\ GoTo("listen") /\ mode' = "certmagic"
     \/ Certmagic(env) = "disabled" /\ GoTo("ensure") /\ UNCHANGED mode
  /\ UNCHANGED <<files, unsynced, pair>>

(* Mutant: only the certificate is looked for.                             *)
IsCertMissing == files["cert"] = "missing"

(* Mutant: a pair that the program did not write is replaced.              *)
IsPairForeign == handled \/ \E file \in Files : files[file] = "missing"

IsPairMissing == \E file \in Files : files[file] = "missing"

(* The pair that is generated is none that was there.                      *)
EnsureTLSCert ==
  /\ pc = "ensure"
  /\ \/ ~IsPairMissing /\ GoTo("listen") /\ mode' = "files" /\ UNCHANGED pair
     \/ /\ IsPairMissing
        /\ \E fresh \in Pairs \ {files[file] : file \in Files} : pair' = fresh
        /\ GoTo("open first") /\ UNCHANGED mode
  /\ UNCHANGED <<files, unsynced>>

(* Mutant: the key is written before the certificate.                      *)
FirstFileKey == "key"

FirstFile == "cert"

SecondFile == CHOOSE file \in Files : file # FirstFile

(* os.WriteFile: the file is created or truncated, and then filled.        *)
Write(file, content) ==
  /\ files' = [files EXCEPT ![file] = content]
  /\ unsynced' = unsynced \cup {file}
  /\ UNCHANGED pair

OpenFirst  == /\ pc = "open first" /\ Write(FirstFile, "partial")
              /\ GoTo("fill first") /\ UNCHANGED mode
FillFirst  == /\ pc = "fill first" /\ Write(FirstFile, pair)
              /\ GoTo("open second") /\ UNCHANGED mode
OpenSecond == /\ pc = "open second" /\ Write(SecondFile, "partial")
              /\ GoTo("fill second") /\ UNCHANGED mode
FillSecond == /\ pc = "fill second" /\ Write(SecondFile, pair)
              /\ GoTo("listen") /\ mode' = "files"

Loads == files["cert"] \in Pairs /\ files["key"] = files["cert"]

(* ListenAndServeTLS loads the two files, if they are two and match.       *)
Listen ==
  /\ pc = "listen"
  /\ GoTo(IF mode = "certmagic" \/ Loads THEN "serving" ELSE "down")
  /\ UNCHANGED <<mode, files, unsynced, pair>>

Step ==
  \/ Configure \/ EnsureTLSCert \/ Listen
  \/ OpenFirst \/ FillFirst \/ OpenSecond \/ FillSecond

-----------------------------------------------------------------------------
(* What happens to it.                                                     *)

(* The failure of a step (certmagic obtains no certificates, a directory   *)
(* or a file cannot be made or written), or a crash of the process: the    *)
(* files stay as they are.                                                 *)
Exit ==
  /\ pc # "down"
  /\ pc' = "down"
  /\ UNCHANGED <<env, files, unsynced, mode, pair, handled>>

HostCrash ==
  /\ pc' = "down"
  /\ files' \in [Files -> Contents]
  /\ \A file \in Files :
       \/ files'[file] = files[file]
       \/ file \in unsynced /\ files'[file] \in {"missing", "partial"}
  /\ unsynced' = {}
  /\ handled' = TRUE
  /\ UNCHANGED <<env, mode, pair>>

WriteBack ==
  /\ unsynced # {}
  /\ unsynced' = {}
  /\ UNCHANGED <<env, files, pc, mode, pair, handled>>

(* The container is created anew, with another environment or other files. *)
Reconfigure ==
  /\ pc = "down"
  /\ env' \in Environments
  /\ UNCHANGED <<files, unsynced, pc, mode, pair, handled>>

Mount ==
  /\ pc = "down"
  /\ files' \in [Files -> Contents]
  /\ unsynced' = {}
  /\ handled' = TRUE
  /\ UNCHANGED <<env, pc, mode, pair>>

Next == Start \/ Step \/ Exit \/ HostCrash \/ WriteBack \/ Reconfigure \/ Mount

Spec == Init /\ [][Next]_vars

(* Docker restarts the program, and a program that is not stopped goes on. *)
FairSpec == Spec /\ WF_vars(Start) /\ WF_vars(Step)

-----------------------------------------------------------------------------
(* Properties.                                                             *)

(* What the next start can use: a pair, or a place for a new one.          *)
Usable == Loads \/ files["cert"] = "missing" \/ files["key"] = "missing"

(* However often the program is stopped in the middle of writing the pair, *)
(* it leaves files that its next start can use, but for one case: stopped  *)
(* between creating the key file and filling it.  (Then no start succeeds  *)
(* until an operator removes a file.)                                      *)
StuckOnlyByTornKey == ~handled => Usable \/ files["key"] = "partial"

(* A pair that loads is never overwritten by the program, whoever put it   *)
(* there and whatever was interrupted before.                              *)
PairKept == [][Loads /\ Step => UNCHANGED files]_vars

(* What a start needs: certmagic or the files, whichever the environment   *)
(* asks for.                                                               *)
Startable ==
  \/ Certmagic(env) = "enabled"
  \/ Certmagic(env) = "disabled" /\ Usable

(* A start that nothing interrupts, and none of whose steps fails (that is *)
(* an Exit), comes to an end only where every later one would:             *)
(* the environment is in error, or the files are neither a pair nor a      *)
(* place for one.  In particular ListenAndServeTLS loads what this start   *)
(* or an interrupted earlier one has written.                              *)
OnlyHopelessStartsFail == [][Step /\ pc' = "down" => ~Startable]_vars

(* Once it is no longer interrupted, the server listens in the end, as     *)
(* long as the configuration is sound and the files are usable.            *)
Recovers ==
  <>[][~HostCrash /\ (Exit => Step)]_vars =>
    (pc = "down" /\ Startable ~> pc = "serving" \/ ~Startable)

-----------------------------------------------------------------------------
(* Why it holds: the key is opened once the certificate is complete, while *)
(* the pair is being written what is there does not load, and no start     *)
(* gets to listening without what it will listen with.                     *)
Inv ==
  /\ TypeOK
  /\ ~handled => \/ files["key"] = "missing"
                 \/ files["cert"] \in Pairs /\ files["key"] \in {"partial", files["cert"]}
  /\ pc \in {"ensure"} \cup Writing => Certmagic(env) = "disabled"
  /\ pc = "listen" =>
       \/ mode = "certmagic" /\ Certmagic(env) = "enabled"
       \/ mode = "files" /\ Certmagic(env) = "disabled" /\ ~IsPairMissing
  /\ pc \in Writing => pair \in Pairs
  /\ pc \in {"open first", "fill first", "open second"} => files["key"] # pair
  /\ pc = "open first" => IsPairMissing
  /\ pc = "fill first" => files["cert"] = "partial"
  /\ pc \in {"open second", "fill second"} => files["cert"] = pair
  /\ pc = "fill second" => files["key"] = "partial"
=============================================================================
