-------------------------- MODULE CertificateAuthority --------------------------
(***************************************************************************)
(* The root CA of the forward proxy on disk, across crashes and restarts,   *)
(* and the leaf certificate and TLS context of one of its hosts             *)
(* (src/proxy/certificates.py, build_leaf_tls_context of src/proxy/tls.py,  *)
(* _tls_context_for_host of src/proxy/server.py).  A file is a record of    *)
(* the generation that wrote it and of whether it was written to its end;   *)
(* a leaf is a record of its serial number and its last moment.  Several    *)
(* connections ask for the context at once, each in a worker thread; the    *)
(* lock makes a call of leaf_certificate_for_host one step.                 *)
(***************************************************************************)
EXTENDS Integers

CONSTANTS
    Threads,    \* worker threads of asyncio.to_thread
    Validity,   \* _LEAF_VALIDITY
    Margin,     \* _LEAF_RENEWAL_MARGIN
    MaxClock,    \* bound on the clock
    MaxBoots,   \* bound on the starts of the process
    Missing     \* nothing there

ASSUME AuthorityAssumption ==
    /\ Validity \in Nat /\ Margin \in Nat /\ Margin < Validity
    /\ MaxClock \in Nat /\ MaxBoots \in Nat
    /\ Missing \notin [generation : Nat, whole : BOOLEAN] \cup [certificate : Nat, key : Nat]
                      \cup [serial : Nat, until : Nat]

VARIABLES
    keyFile, certFile,   \* the PEM files in ca_dir
    boot,                \* the process: down, writing a file, up, or refused to start
    pair,                \* the generations of the certificate and the key in memory
    boots,               \* how often it was started: names a generation
    leaf,                \* _leaf_cache of the host
    context,             \* _tls_contexts of the host: the serial it is kept under, its leaf
    worker,              \* the call of _tls_context_for_host in each thread
    clock                \* now

diskVars == <<keyFile, certFile, boot, pair, boots>>
contextVars == <<leaf, context, worker>>
authorityVars == <<diskVars, contextVars, clock>>

File == [generation : 1..MaxBoots, whole : BOOLEAN] \cup {Missing}
Leaf == [serial : 1..MaxClock + 1, until : 0..MaxClock + Validity]
Unasked == [at |-> "idle"]
Calls ==
    {Unasked}
    \cup [at : {"compare", "build"}, serial : 1..MaxClock + 1, asked : 0..MaxClock]
    \cup [at : {"keep"}, serial : 1..MaxClock + 1, leaf : Leaf, asked : 0..MaxClock]
    \cup [at : {"served"}, leaf : Leaf, asked : 0..MaxClock]

AuthorityTypeOK ==
    /\ keyFile \in File /\ certFile \in File
    /\ boot \in {"down", "key", "certificate", "up", "refused"}
    /\ pair \in [certificate : 1..MaxBoots, key : 1..MaxBoots] \cup {Missing}
    /\ boots \in 0..MaxBoots
    /\ leaf \in Leaf \cup {Missing}
    /\ context \in [serial : 1..MaxClock + 1, leaf : Leaf] \cup {Missing}
    /\ worker \in [Threads -> Calls]
    /\ clock \in 0..MaxClock

AuthorityInit ==
    /\ keyFile = Missing /\ certFile = Missing
    /\ boot = "down" /\ pair = Missing /\ boots = 0
    /\ leaf = Missing /\ context = Missing
    /\ worker = [t \in Threads |-> Unasked] /\ clock = 0

-----------------------------------------------------------------------------
(* The CA on disk.                                                         *)

NewKey == [generation |-> boots + 1, whole |-> FALSE]

\* A start: with both files there they are loaded, and one that does not parse ends
\* it; otherwise a pair is generated and its key, the one given, is written first.
BootWriting(key) ==
    /\ boot \in {"down", "refused"} /\ boots < MaxBoots
    /\ boots' = boots + 1
    /\ IF keyFile # Missing /\ certFile # Missing
       THEN /\ boot' = IF keyFile.whole /\ certFile.whole THEN "up" ELSE "refused"
            /\ pair' = IF boot' = "up"
                       THEN [certificate |-> certFile.generation, key |-> keyFile.generation]
                       ELSE Missing
            /\ UNCHANGED keyFile
       ELSE /\ boot' = "key"
            /\ pair' = [certificate |-> boots', key |-> boots']
            /\ keyFile' = key
    /\ UNCHANGED <<certFile, contextVars, clock>>

\* Mutant of Boot: a key that is there already is kept.
BootKeepingKey == BootWriting(IF keyFile = Missing THEN NewKey ELSE keyFile)

Boot == BootWriting(NewKey)

\* The key is on disk and the certificate follows.
KeyWritten ==
    /\ boot = "key"
    /\ keyFile' = [keyFile EXCEPT !.whole = TRUE]
    /\ certFile' = [generation |-> pair.certificate, whole |-> FALSE]
    /\ boot' = "certificate"
    /\ UNCHANGED <<pair, boots, contextVars, clock>>

CertificateWritten ==
    /\ boot = "certificate"
    /\ certFile' = [certFile EXCEPT !.whole = TRUE]
    /\ boot' = "up"
    /\ UNCHANGED <<keyFile, pair, boots, contextVars, clock>>

\* The process is killed, or ends: what it had in memory is gone, a file it was
\* writing stays as it is.
Die ==
    /\ boot \in {"key", "certificate", "up"}
    /\ boot' = "down" /\ pair' = Missing
    /\ leaf' = Missing /\ context' = Missing /\ worker' = [t \in Threads |-> Unasked]
    /\ UNCHANGED <<keyFile, certFile, boots, clock>>

-----------------------------------------------------------------------------
(* The leaf certificate and its context.                                   *)

\* A leaf issued now; the serial numbers count the moments of issue, for they are
\* only compared.
Issued(now) == [serial |-> now + 1, until |-> now + Validity]

ExpiringSoon(certificate, now) == certificate.until - now <= Margin

\* leaf_certificate_for_host: the cached leaf, or one issued under the lock.
LeafForHost ==
    IF leaf # Missing /\ ~ExpiringSoon(leaf, clock) THEN leaf ELSE Issued(clock)

\* A connection asks for the context: the leaf as of the call.
Ask(t) ==
    /\ boot = "up" /\ worker[t] = Unasked
    /\ leaf' = LeafForHost
    /\ worker' = [worker EXCEPT ![t] = [at |-> "compare", serial |-> leaf'.serial, asked |-> clock]]
    /\ UNCHANGED <<diskVars, context, clock>>

Serve(t, certificate) ==
    worker' = [worker EXCEPT ![t] =
                   [at |-> "served", leaf |-> certificate, asked |-> worker[t].asked]]

\* Mutant of Compare: a context that is there is taken to be current.
CompareNothing(t) ==
    /\ worker[t].at = "compare"
    /\ IF context # Missing
       THEN Serve(t, context.leaf)
       ELSE worker' = [worker EXCEPT ![t].at = "build"]
    /\ UNCHANGED <<diskVars, leaf, context, clock>>

\* The cached context, if it is kept under the serial number of that leaf.
Compare(t) ==
    /\ worker[t].at = "compare"
    /\ IF context # Missing /\ context.serial = worker[t].serial
       THEN Serve(t, context.leaf)
       ELSE worker' = [worker EXCEPT ![t].at = "build"]
    /\ UNCHANGED <<diskVars, leaf, context, clock>>

\* build_leaf_tls_context: asks for the leaf once more.
Build(t) ==
    /\ worker[t].at = "build"
    /\ leaf' = LeafForHost
    /\ worker' = [worker EXCEPT ![t] = [at |-> "keep", serial |-> worker[t].serial,
                                        leaf |-> leaf', asked |-> worker[t].asked]]
    /\ UNCHANGED <<diskVars, context, clock>>

\* The new context is kept under the serial number asked for at first, and returned.
Keep(t) ==
    /\ worker[t].at = "keep"
    /\ context' = [serial |-> worker[t].serial, leaf |-> worker[t].leaf]
    /\ Serve(t, worker[t].leaf)
    /\ UNCHANGED <<diskVars, leaf, clock>>

\* The handshake has begun with it.
Shake(t) ==
    /\ worker[t].at = "served"
    /\ worker' = [worker EXCEPT ![t] = Unasked]
    /\ UNCHANGED <<diskVars, leaf, context, clock>>

Passes ==
    /\ clock < MaxClock
    /\ clock' = clock + 1
    /\ UNCHANGED <<diskVars, contextVars>>

AuthorityNext ==
    \/ Boot \/ KeyWritten \/ CertificateWritten \/ Die \/ Passes
    \/ \E t \in Threads : Ask(t) \/ Compare(t) \/ Build(t) \/ Keep(t) \/ Shake(t)

AuthoritySpec == AuthorityInit /\ [][AuthorityNext]_authorityVars

-----------------------------------------------------------------------------
(* Properties.                                                             *)

\* A process that is up signs its leaves with the key of the certificate it was told
\* to have clients trust (root_certificate_path): whatever crash came between the two
\* writes of an earlier start, the pair loaded belongs together and is the one on
\* disk.
PairMatches ==
    boot = "up" =>
        /\ pair.certificate = pair.key
        /\ certFile = [generation |-> pair.certificate, whole |-> TRUE]
        /\ keyFile = [generation |-> pair.key, whole |-> TRUE]

\* Although leaves are reissued at any moment and the context cache has no lock, a
\* connection never gets a context whose leaf was due for renewal when it asked.
ContextIsCurrent ==
    \A t \in Threads :
        worker[t].at = "served" => ~ExpiringSoon(worker[t].leaf, worker[t].asked)

\* The inductive invariant.  The certificate is written behind its whole key, so that
\* with a certificate on disk, whole or not, the pair is one generation, and a start
\* generates another pair only where there is no certificate.
DiskInv ==
    /\ certFile # Missing =>
          keyFile = [generation |-> certFile.generation, whole |-> TRUE]
    /\ boot = "key" =>
          /\ certFile = Missing
          /\ pair # Missing /\ pair.certificate = pair.key
          /\ keyFile = [generation |-> pair.key, whole |-> FALSE]
    /\ boot = "certificate" =>
          /\ pair # Missing /\ pair.certificate = pair.key
          /\ keyFile = [generation |-> pair.key, whole |-> TRUE]
          /\ certFile = [generation |-> pair.certificate, whole |-> FALSE]

\* How long the leaf of serial number s lasts.
LastsUntil(s) == s - 1 + Validity

\* A call under way asked for a leaf that was not due then, the cached leaf is that one
\* or a later one, and a context lasts at least as long as the leaf it is kept under.
LeafInv ==
    /\ leaf # Missing => leaf.until = LastsUntil(leaf.serial) /\ leaf.serial <= clock + 1
    /\ context # Missing => context.leaf.until >= LastsUntil(context.serial)
    /\ \A t \in Threads :
          /\ worker[t].at \in {"compare", "build", "keep"} =>
                /\ leaf # Missing /\ worker[t].serial <= leaf.serial
                /\ worker[t].asked <= clock
                /\ LastsUntil(worker[t].serial) - worker[t].asked > Margin
          /\ worker[t].at = "keep" => worker[t].leaf.until >= LastsUntil(worker[t].serial)

AuthorityInv == AuthorityTypeOK /\ DiskInv /\ PairMatches /\ LeafInv /\ ContextIsCurrent
=============================================================================
