------------------------------- MODULE Speech -------------------------------
(***************************************************************************)
(* From a translated sentence to SPEECH_READY: TtsManager.synthesize with  *)
(* its audio cache and its engine, then LipSyncManager.sync.  A caller is  *)
(* the process thread of a call's spoken direction.  Each call has a       *)
(* TtsManager of its own, and with it an AudioCache; all caches share one  *)
(* directory.  A call that was not waited for, or not stopped, speaks      *)
(* beside the next one.                                                    *)
(*                                                                         *)
(* Of a file only its completeness matters: "none" there is no file,       *)
(* "empty" it was opened, "part" some of it is written, "whole".  The      *)
(* caller's own files have unique names, so a step that touches only them  *)
(* is one step; those on the shared directory are split.  The lock of an   *)
(* AudioCache has one user and is never waited for.                        *)
(***************************************************************************)
EXTENDS Backends, Naturals, FiniteSets

CONSTANTS
  Callers,      \* process threads that speak
  Keys,         \* sentences with their voice: the keys of the cache
  Attempts      \* max_attempts of the retry policy

ASSUME SpeechAssumption == Attempts \in Nat \ {0} /\ Keys # {}

VARIABLES
  engine,   \* the backend that TtsManager has selected
  lip,      \* the backend that LipSyncManager has selected
  at,       \* where each caller is
  key,      \* the sentence it speaks
  tries,    \* attempts of the engine that have failed for it
  out,      \* the audio file it will announce
  cache,    \* the cached file of each key
  opener,   \* who opened it last for writing
  served,   \* history: the SPEECH_READY events
  cut,      \* history: keys whose copy into the cache was left in part
  clash     \* history: keys that two managers had in hand at once

calls == <<at, key, tries, out>>
choice == <<engine, lip>>
spHistory == <<served, cut, clash>>
spVars == <<choice, calls, cache, opener, spHistory>>

\* The registries without the second names of a class ("microsoft-tts" and
\* "microsoft-neural-tts" of Edge, "buffered" of Wav2Lip).
TtsOrder == <<"edge-tts", "coqui">>
LipOrder == <<"wav2lip", "demo", "null">>
Nobody == "nobody"

Contents == {"none", "empty", "part", "whole"}
Places == {"idle", "look", "copy", "synthesize", "store", "write", "close", "lip"}

-----------------------------------------------------------------------------
\* What the managers may have selected; the null backend is always available,
\* and without any engine TtsManager raises.
Engines ==
  {Select(requested, TtsOrder, available) :
     requested \in ToSet(TtsOrder), available \in SUBSET ToSet(TtsOrder)}

LipBackends ==
  {Select(requested, LipOrder, available \cup {"null"}) :
     requested \in ToSet(LipOrder), available \in SUBSET ToSet(LipOrder)}

SpeechInit ==
  /\ engine \in Engines \ {NoBackend}
  /\ lip \in LipBackends
  /\ at = [c \in Callers |-> "idle"]
  /\ key \in [Callers -> {CHOOSE t \in Keys : TRUE}]
  /\ tries = [c \in Callers |-> 0]
  /\ out = [c \in Callers |-> "none"]
  /\ cache = [t \in Keys |-> "none"]
  /\ opener = [t \in Keys |-> Nobody]
  /\ served = {} /\ cut = {} /\ clash = {}

\* Whoever is copying from the cached file of the key or into it.
InHand(t) == {c \in Callers : at[c] \in {"copy", "write", "close"} /\ key[c] = t}

\* The lock of one manager does not keep another manager out.
Enter(c, place) ==
  /\ at' = [at EXCEPT ![c] = place]
  /\ clash' = IF InHand(key[c]) # {} THEN clash \cup {key[c]} ELSE clash

Move(c, place) == at' = [at EXCEPT ![c] = place]

\* The sentence ends, announced or not.
Ends(c) ==
  /\ Move(c, "idle")
  /\ tries' = [tries EXCEPT ![c] = 0]
  /\ out' = [out EXCEPT ![c] = "none"]

-----------------------------------------------------------------------------
(* TtsManager.synthesize and AudioCache.get.                               *)

Begin(c) ==
  /\ at[c] = "idle"
  /\ \E t \in Keys : key' = [key EXCEPT ![c] = t]
  /\ Move(c, "look")
  /\ UNCHANGED <<tries, out>>
  /\ UNCHANGED <<choice, cache, opener, served, cut, clash>>

\* Faulty variant of Hit: an empty file counts as well.
HitAnyFile(c) ==
  /\ at[c] = "look"
  /\ cache[key[c]] # "none"
  /\ Enter(c, "copy")
  /\ UNCHANGED <<choice, key, tries, out, cache, opener, served, cut>>

Hit(c) ==
  /\ at[c] = "look"
  /\ cache[key[c]] \in {"part", "whole"}
  /\ Enter(c, "copy")
  /\ UNCHANGED <<choice, key, tries, out, cache, opener, served, cut>>

Miss(c) ==
  /\ at[c] = "look"
  /\ cache[key[c]] \in {"none", "empty"}
  /\ Move(c, "synthesize")
  /\ UNCHANGED <<choice, key, tries, out, cache, opener, served, cut, clash>>

\* What is copied is what the file holds by then.
Copy(c) ==
  /\ at[c] = "copy"
  /\ out' = [out EXCEPT ![c] = cache[key[c]]]
  /\ Move(c, "lip")
  /\ UNCHANGED <<choice, key, tries, cache, opener, served, cut, clash>>

\* The exception is logged, and the sentence is synthesized after all.
CopyFails(c) ==
  /\ at[c] = "copy"
  /\ Move(c, "synthesize")
  /\ UNCHANGED <<choice, key, tries, out, cache, opener, served, cut, clash>>

\* Of Coqui's stub the whole sentence is a file without sound.
Synthesize(c) ==
  /\ at[c] = "synthesize"
  /\ out' = [out EXCEPT ![c] = "whole"]
  /\ Move(c, "store")
  /\ UNCHANGED <<choice, key, tries, cache, opener, served, cut, clash>>

\* Edge is tried again, into the same file, until the last attempt has failed.
EdgeFails(c) ==
  /\ at[c] = "synthesize" /\ engine = "edge-tts"
  /\ IF tries[c] + 1 < Attempts
     THEN /\ tries' = [tries EXCEPT ![c] = @ + 1]
          /\ out' = [out EXCEPT ![c] = "part"]
          /\ UNCHANGED at
     ELSE Ends(c)
  /\ UNCHANGED <<choice, key, cache, opener, served, cut, clash>>

\* Coqui's first failure is the last.
CoquiFails(c) ==
  /\ at[c] = "synthesize" /\ engine = "coqui"
  /\ Ends(c)
  /\ UNCHANGED <<choice, key, cache, opener, served, cut, clash>>

-----------------------------------------------------------------------------
(* AudioCache.store.                                                       *)

\* copyfile opens the cached file, and with that empties it.
Store(c) ==
  /\ at[c] = "store"
  /\ cache' = [cache EXCEPT ![key[c]] = "empty"]
  /\ opener' = [opener EXCEPT ![key[c]] = c]
  /\ Enter(c, "write")
  /\ UNCHANGED <<choice, key, tries, out, served, cut>>

StoreWrite(c) ==
  /\ at[c] = "write"
  /\ cache' = [cache EXCEPT ![key[c]] = IF @ = "empty" THEN "part" ELSE @]
  /\ Move(c, "close")
  /\ UNCHANGED <<choice, key, tries, out, opener, served, cut, clash>>

\* Whoever opened the file first does not make it whole while another, who has
\* emptied it since, is still writing.
StoreClose(c) ==
  /\ at[c] = "close"
  /\ cache' = [cache EXCEPT ![key[c]] = IF opener[key[c]] = c THEN "whole" ELSE @]
  /\ Move(c, "lip")
  /\ UNCHANGED <<choice, key, tries, out, opener, served, cut, clash>>

\* Before or while it writes, copyfile raises: logged, and what is there stays.
StoreFails(c) ==
  /\ at[c] \in {"store", "write", "close"}
  /\ cut' = IF at[c] = "close" THEN cut \cup {key[c]} ELSE cut
  /\ Move(c, "lip")
  /\ UNCHANGED <<choice, key, tries, out, cache, opener, served, clash>>

-----------------------------------------------------------------------------
(* LipSyncManager.sync and the end of _process_sentence.                   *)

\* What a backend may answer or raise.  Wav2Lip: missing files, a timeout, a
\* return code and no video are a LipSyncError; a directory that cannot be made is not.
Wav2LipSync == {"video", "LipSyncError", "OSError"}
DemoSync    == {"clip", "no clip", "OSError"}
NullSync    == {"face", "no face"}

Outcomes == CASE lip = "wav2lip" -> Wav2LipSync
              [] lip = "demo" -> DemoSync
              [] lip = "null" -> NullSync

\* A LipSyncError becomes speech without video: the sentence is announced.
Announce(c) ==
  /\ at[c] = "lip" /\ Outcomes \ {"OSError"} # {}
  /\ served' = served \cup {[key |-> key[c], audio |-> out[c]]}
  /\ Ends(c)
  /\ UNCHANGED <<choice, key, cache, opener, cut, clash>>

\* sync catches nothing else: any other exception costs the speech too.
LipSyncFails(c) ==
  /\ at[c] = "lip" /\ "OSError" \in Outcomes
  /\ Ends(c)
  /\ UNCHANGED <<choice, key, cache, opener, served, cut, clash>>

SpeechWork(c) ==
  \/ Hit(c) \/ Miss(c) \/ Copy(c) \/ CopyFails(c)
  \/ Synthesize(c) \/ EdgeFails(c) \/ CoquiFails(c)
  \/ Store(c) \/ StoreWrite(c) \/ StoreClose(c) \/ StoreFails(c)
  \/ Announce(c) \/ LipSyncFails(c)

-----------------------------------------------------------------------------
\* Keys that someone has written in part.
HalfWritten == {key[c] : c \in {d \in Callers : at[d] = "close"}}

\* The process dies and is started again: the directory stays as it is.
CrashProcess ==
  /\ at' = [c \in Callers |-> "idle"]
  /\ tries' = [c \in Callers |-> 0]
  /\ out' = [c \in Callers |-> "none"]
  /\ cut' = cut \cup HalfWritten
  /\ UNCHANGED <<choice, key, cache, opener, served, clash>>

SpeechNext ==
  \/ \E c \in Callers : Begin(c) \/ SpeechWork(c)
  \/ CrashProcess

SpeechSpec == SpeechInit /\ [][SpeechNext]_spVars

-----------------------------------------------------------------------------
(* Properties.                                                             *)

\* Type correctness of the managers, their caches and their callers.
SpeechTypeOK ==
  /\ engine \in ToSet(TtsOrder) /\ lip \in ToSet(LipOrder)
  /\ at \in [Callers -> Places] /\ key \in [Callers -> Keys]
  /\ tries \in [Callers -> 0 .. Attempts - 1] /\ out \in [Callers -> Contents]
  /\ cache \in [Keys -> Contents] /\ opener \in [Keys -> Callers \cup {Nobody}]
  /\ served \subseteq [key : Keys, audio : Contents]
  /\ cut \subseteq Keys /\ clash \subseteq Keys

\* What SPEECH_READY announces is the whole sentence, from the engine or from the
\* cache, unless a copy into the cache was cut short before, by an error or by a
\* crash, or the managers of two calls had the sentence in hand at the same time
\* (AudioCache takes any file that is not empty for complete).
ServedWhole ==
  \A event \in served : event.audio = "whole" \/ event.key \in cut \cup clash
=============================================================================
