----------------------------- MODULE PKIDocCache -----------------------------
(***************************************************************************)
(* The thin client's PKI documents (katzenpost/client/thin/thin.go,        *)
(* parsePKIDoc, PKIDocument and PKIDocumentForEpoch): the current document *)
(* and a cache by epoch, written by the reader in two critical sections    *)
(* and looked up by callers at any time.  A document is its epoch.         *)
(***************************************************************************)
EXTENDS Naturals, FiniteSets

CONSTANTS
    Epochs,             \* the epochs of the documents the daemon may send
    MaxCachedEpochs,    \* 5 in the code
    NoDoc

ASSUME EpochsAssumption ==
    /\ MaxCachedEpochs \in Nat
    /\ Epochs \subseteq Nat
    /\ \A e \in Epochs : e >= MaxCachedEpochs   \* epochs count from 2017
    /\ NoDoc \notin Epochs

VARIABLES
    pkidoc,         \* the current document              (pkidocMutex)
    pkiDocCache,    \* the epochs cached                 (pkiDocCacheLock)
    parsing,        \* the document between the two critical sections
    received        \* history: every document parsed so far

docVars == <<pkidoc, pkiDocCache, parsing, received>>

DocTypeOK ==
    /\ pkidoc \in Epochs \cup {NoDoc}
    /\ pkiDocCache \subseteq Epochs
    /\ parsing \in Epochs \cup {NoDoc}
    /\ received \subseteq Epochs

DocInit ==
    /\ pkidoc = NoDoc
    /\ pkiDocCache = {}
    /\ parsing = NoDoc
    /\ received = {}

(* parsePKIDoc, first half: the document becomes the current one, whatever *)
(* its epoch.                                                              *)
SetCurrent(e) ==
    /\ parsing = NoDoc
    /\ pkidoc' = e
    /\ parsing' = e
    /\ received' = received \cup {e}
    /\ UNCHANGED pkiDocCache

(* Mutant of Kept: one epoch too few is kept.                              *)
KeptOneLess(cache, e) ==
    IF Cardinality(cache) > MaxCachedEpochs
    THEN {c \in cache : c > e - MaxCachedEpochs} ELSE cache

(* The clean-up once more than maxCachedEpochs documents are cached: what  *)
(* is older than doc.Epoch - maxCachedEpochs goes.                         *)
Kept(cache, e) ==
    IF Cardinality(cache) > MaxCachedEpochs
    THEN {c \in cache : c >= e - MaxCachedEpochs} ELSE cache

(* parsePKIDoc, second half: the document is cached.                       *)
CacheDoc ==
    /\ parsing # NoDoc
    /\ pkiDocCache' = Kept(pkiDocCache \cup {parsing}, parsing)
    /\ parsing' = NoDoc
    /\ UNCHANGED <<pkidoc, received>>

(* PKIDocumentForEpoch: the cached document, or else the current one.      *)
PKIDocumentForEpoch(e) == IF e \in pkiDocCache THEN e ELSE pkidoc

DocNext == CacheDoc \/ \E e \in Epochs : SetCurrent(e)

DocSpec == DocInit /\ [][DocNext]_docVars

(* The epochs a client may still be asked about: no more than              *)
(* MaxCachedEpochs behind the newest document it was ever sent.            *)
Recent == {e \in received : \A n \in received : n <= e + MaxCachedEpochs}

(* "This is important for maintaining consistency during epoch             *)
(* transitions": a document that was received, and is recent, is found     *)
(* under its own epoch, however late or out of order others arrive.        *)
RecentEpochsFound ==
    \A e \in Recent : PKIDocumentForEpoch(e) = e
=============================================================================
