---------------------------- MODULE OfferTrimming ----------------------------
(***************************************************************************)
(* The trimming of a viewer's offer to what the signalling service carries *)
(* (sdp.py, trim_offer_for_kvs, as camera.py:261-283 uses it).  An offer   *)
(* is a sequence of sections: the payload numbers its m= line lists, the   *)
(* codec and the repaired payload of a number (rtpmap, apt), and its       *)
(* header extensions.  A size counts sections, numbers and extensions.     *)
(***************************************************************************)
EXTENDS Naturals, Sequences, SequencesExt, Lists

CONSTANTS Video,       \* the payload numbers of a viewer's video section
          Audio,       \* and of its audio section
          MaxHeaders,  \* bound: extensions of a section
          NoCodec      \* a number without a codec, or one that repairs none

ASSUME TrimAssumption ==
    /\ Video \in Seq(ToSet(Video)) /\ Audio \in Seq(ToSet(Audio))
    /\ ToSet(Video) \cap ToSet(Audio) = {} /\ MaxHeaders \in Nat
    /\ NoCodec \notin ToSet(Video) \cup ToSet(Audio)

VARIABLES
    original,   \* the viewer's offer
    room,       \* the size the service carries
    fate,       \* "waiting", "sent" or "refused"
    sent        \* the offer that was sent

trimVars == <<original, room, fate, sent>>

-----------------------------------------------------------------------------
(* Offers.                                                                 *)

Payloads(s) == ToSet(s.numbers)

Size(offer) ==
    Total([i \in DOMAIN offer |-> 1 + Len(offer[i].numbers) + offer[i].headers])
Headers(offer) == Total([i \in DOMAIN offer |-> offer[i].headers])

VideoSections ==
    {[kind |-> "video", numbers |-> Video, codec |-> c, apt |-> a, headers |-> h] :
        c \in [ToSet(Video) -> {"h264", "vp8", "rtx", NoCodec}],
        a \in [ToSet(Video) -> ToSet(Video) \cup {NoCodec}], h \in 0..MaxHeaders}

AudioSections ==
    {[kind |-> "audio", numbers |-> Audio, codec |-> c, apt |-> [n \in ToSet(Audio) |-> NoCodec],
      headers |-> 0] : c \in [ToSet(Audio) -> {"opus", "pcmu"}]}

DataSection ==
    [kind |-> "application", numbers |-> <<>>, codec |-> <<>>, apt |-> <<>>, headers |-> 0]

(* A retransmission repairs a payload that is none; nothing else repairs.  *)
WellFormed(s) ==
    \A n \in Payloads(s) :
        IF s.codec[n] = "rtx" THEN s.apt[n] \in Payloads(s) /\ s.codec[s.apt[n]] # "rtx"
        ELSE s.apt[n] = NoCodec

OffersOf(v) == {<<a, v, DataSection>> : a \in AudioSections} \cup {<<v>>}

-----------------------------------------------------------------------------
(* The trimming.                                                           *)

(* _PREFERRED_CODEC; the vehicle answers no other.                         *)
Preferred(s) == CASE s.kind = "video" -> "h264"
                  [] s.kind = "audio" -> "opus"
                  [] OTHER            -> NoCodec

Primary(s) == {n \in Payloads(s) : s.codec[n] = Preferred(s)}

RepairsAny(s) ==   \* mutant: every retransmission is kept
    {n \in Payloads(s) : s.codec[n] = "rtx"}

Repairs(s) == {n \in Payloads(s) : s.codec[n] = "rtx" /\ s.apt[n] \in Primary(s)}

KeepAttributes(s) ==   \* mutant: only the m= line is cut
    LET keep == Primary(s) \cup Repairs(s) IN
    IF Preferred(s) = NoCodec \/ Primary(s) = {} THEN s
    ELSE [s EXCEPT !.numbers = Those(@, keep)]

(* _keep_preferred_codec.                                                  *)
KeepPreferredCodec(s) ==
    LET keep == Primary(s) \cup Repairs(s) IN
    IF Preferred(s) = NoCodec \/ Primary(s) = {} THEN s
    ELSE [s EXCEPT !.numbers = Those(@, keep),
                   !.codec = [n \in keep |-> s.codec[n]],
                   !.apt = [n \in keep |-> s.apt[n]]]

WithoutHeaders(s) == [s EXCEPT !.headers = 0]

Each(offer, Of(_)) == [i \in DOMAIN offer |-> Of(offer[i])]

(* _preserves_shape.                                                       *)
PreservesShape(was, now) ==
    /\ Len(now) = Len(was)
    /\ \A i \in DOMAIN now :
          /\ now[i].kind = was[i].kind
          /\ \A n \in DOMAIN now[i].codec :
                n \in DOMAIN was[i].codec /\ now[i].codec[n] = was[i].codec[n]

TrimHeadersToo(offer) ==   \* mutant: both cuts at once
    LET less == Each(Each(offer, KeepPreferredCodec), WithoutHeaders) IN
    IF Size(offer) <= room THEN offer ELSE less

(* trim_offer_for_kvs: the codecs first, then the extensions as well.      *)
TrimOfferForKvs(offer) ==
    LET fewer == Each(offer, KeepPreferredCodec)
        bare  == Each(fewer, WithoutHeaders)
        best  == IF Size(fewer) <= room THEN fewer ELSE bare IN
    IF Size(offer) <= room \/ ~PreservesShape(offer, best) THEN offer ELSE best

-----------------------------------------------------------------------------
TrimTypeOK ==
    /\ fate \in {"waiting", "sent", "refused"} /\ (sent = <<>> <=> fate # "sent")
    /\ \A i \in DOMAIN sent :
          /\ sent[i].kind \in {"audio", "video", "application"}
          /\ DOMAIN sent[i].codec = Payloads(sent[i]) /\ DOMAIN sent[i].apt = Payloads(sent[i])
    /\ room \in 0..Size(original)

TrimInit ==
    /\ \E v \in VideoSections : WellFormed(v) /\ original \in OffersOf(v)
    /\ room \in 1..Size(original)
    /\ fate = "waiting" /\ sent = <<>>

(* async_handle_async_webrtc_offer, before the session is registered.      *)
OfferHandled ==
    /\ fate = "waiting"
    /\ LET trimmed == TrimOfferForKvs(original) IN
       IF Size(trimmed) > room THEN fate' = "refused" /\ sent' = <<>>
       ELSE fate' = "sent" /\ sent' = trimmed
    /\ UNCHANGED <<original, room>>

TrimNext == OfferHandled

TrimSpec == TrimInit /\ [][TrimNext]_trimVars

-----------------------------------------------------------------------------
(* A section that lists some of the numbers of another, in its order,      *)
(* which is the viewer's order of preference.                              *)
InOrder(now, was) ==
    \E at \in [DOMAIN now -> DOMAIN was] :
        \A i \in DOMAIN now :
            now[i] = was[at[i]] /\ \A j \in DOMAIN now : i < j => at[i] < at[j]

(* The viewer can match the answer to its offer: the sections stand, none  *)
(* has lost its last payload, the numbers are in the viewer's order and    *)
(* mean the codecs they meant, and a retransmission repairs a payload that *)
(* is still there (_keep_preferred_codec, _preserves_shape).               *)
AnswerLinesUp ==
    fate = "sent" => Len(sent) = Len(original) /\ \A i \in DOMAIN original :
        LET was == original[i] now == sent[i] IN
        /\ now.kind = was.kind
        /\ InOrder(now.numbers, was.numbers)
        /\ Payloads(was) # {} => Payloads(now) # {}
        /\ \A n \in Payloads(now) : now.codec[n] = was.codec[n] /\
              (now.codec[n] = "rtx" => now.apt[n] = was.apt[n] /\ now.apt[n] \in Payloads(now))

(* Nothing is dropped that need not be: what fits is sent as it was, what  *)
(* the vehicle answers and what repairs it is always kept, and extensions  *)
(* go only when dropping every other codec was not enough                  *)
(* (trim_offer_for_kvs, tests/test_sdp.py:133).                            *)
DropsNoMoreThanNeeded ==
    fate = "sent" =>
        /\ Size(original) <= room => sent = original
        /\ \A i \in DOMAIN original : LET was == original[i] IN
              \A n \in Payloads(was) :
                 (was.codec[n] = Preferred(was) \/
                     (was.codec[n] = "rtx" /\ was.codec[was.apt[n]] = Preferred(was)))
                 => n \in Payloads(sent[i])
        /\ (\E i \in DOMAIN original : sent[i].headers < original[i].headers) =>
              Size(sent) + Headers(original) > room

(* A trimmed offer means what the viewer offered, and lacks no more than   *)
(* it must.                                                                *)
OfferMeansTheSame ==
    /\ TrimTypeOK
    /\ AnswerLinesUp
    /\ DropsNoMoreThanNeeded
=============================================================================
