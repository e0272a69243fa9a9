----------------------------- MODULE DisplayProofs -----------------------------
(***************************************************************************)
(* Proofs about Display for a picture of any height: the card and the blit *)
(* thread never meet in buffer32, and no posted frame is lost or torn on   *)
(* its way to the shadow framebuffer.                                      *)
(***************************************************************************)
EXTENDS Display, TLAPS

\* A posted blit that has not been copied yet.
Pending == wake \/ bpc \in {"woken", "start", "copy"}
Posts == epc \in {"mark", "fill", "signal"}

\* The handshake: which places the two threads can be in together.
HandInv ==
    /\ Posts => busy /\ ~wake /\ bpc \in {"wait", "finish"}
    /\ wake => bpc \in {"wait", "finish", "woken"}
    /\ bpc = "woken" => wake
    /\ Pending \/ bpc \in {"release", "idle"} => busy
    /\ epc \in {"fill", "signal"} \/ Pending \/ bpc = "release" => buffer_in_use
    /\ Pending => epc \in {"frame", "post"} /\ changed = {}
    /\ epc \in {"signal", "frame"} => changed = {}

SameOutside(a, b, S) == \A l \in Lines \ S : a[l] = b[l]

\* The bitmap is the posted picture except for what was drawn since; the shadow
\* is the posted picture except for what is still to be copied.
DataInv ==
    /\ epc \in {"drawing", "post"} => SameOutside(buffer32, picture, changed)
    /\ epc \notin {"drawing", "post"} => buffer32 = picture
    /\ epc \in {"mark", "fill"} => SameOutside(shadow, picture, changed)
    /\ epc = "signal" \/ wake \/ bpc \in {"woken", "start"} => SameOutside(shadow, picture, rows)
    /\ bpc = "copy" => SameOutside(shadow, picture, todo)
    /\ ~Posts /\ ~Pending => shadow = picture

\* The inductive invariant.
IInv == TypeOK /\ HandInv /\ DataInv

----------------------------------------------------------------------------
(* Types *)

\* The blank picture and the idle threads have their types.
LEMMA TypeInit == Init => TypeOK
<1> SUFFICES ASSUME Init PROVE TypeOK
  OBVIOUS
<1>1. Blank \in [Lines -> Pixels]
  BY PictureAssumption DEF Blank
<1>2. busy \in BOOLEAN /\ buffer_in_use \in BOOLEAN /\ wake \in BOOLEAN /\ fresh \in BOOLEAN
  BY Zenon DEF Init
<1> QED BY <1>1, <1>2 DEF Init, TypeOK, EmuPlaces, BlitPlaces

\* Every step keeps the types.
LEMMA TypeStep == TypeOK /\ [Next]_vars => TypeOK'
<1> SUFFICES ASSUME TypeOK, [Next]_vars PROVE TypeOK'
  OBVIOUS
<1> USE DEF TypeOK, EmuPlaces, BlitPlaces, flags, emu, blit, js
<1>1. CASE FirstLine     BY <1>1 DEF FirstLine
<1>2. CASE Vsync         BY <1>2 DEF Vsync
<1>3. CASE PostBusy      BY <1>3 DEF PostBusy
<1>4. CASE PostInUse     BY <1>4 DEF PostInUse
<1>5. CASE PostRows      BY <1>5 DEF PostRows, RowsOf
<1>6. CASE PostWake      BY <1>6 DEF PostWake, SetWake
<1>7. CASE BlitWakes     BY <1>7 DEF BlitWakes
<1>8. CASE BlitResets    BY <1>8 DEF BlitResets
<1>9. CASE BlitStarts    BY <1>9 DEF BlitStarts
<1>10. CASE BlitEnds     BY <1>10 DEF BlitEnds
<1>11. CASE BlitReleases BY <1>11 DEF BlitReleases
<1>12. CASE BlitIdles    BY <1>12 DEF BlitIdles
<1>13. CASE BlitWaits    BY <1>13 DEF BlitWaits
<1>14. CASE SeeGeneration BY <1>14 DEF SeeGeneration
<1>15. CASE PutImage     BY <1>15 DEF PutImage
<1>16. ASSUME NEW l \in Lines, NEW p \in Pixels, DrawLine(l, p) PROVE TypeOK'
  BY <1>16 DEF DrawLine
<1>17. ASSUME NEW l \in Lines, BlitCopies(l) PROVE TypeOK'
  BY <1>17 DEF BlitCopies
<1>18. ASSUME NEW l \in Lines, ReadLine(l) PROVE TypeOK'
  BY <1>18 DEF ReadLine
<1>19. CASE UNCHANGED vars BY <1>19 DEF vars
<1> QED BY <1>1, <1>2, <1>3, <1>4, <1>5, <1>6, <1>7, <1>8, <1>9, <1>10, <1>11, <1>12, <1>13,
        <1>14, <1>15, <1>16, <1>17, <1>18, <1>19 DEF Next, Posting, Blitting, DrawFrame

\* The types of the picture, the handshake flags and the three threads' places.
THEOREM TypeCorrect == Spec => []TypeOK
  BY TypeInit, TypeStep, PTL DEF Spec

----------------------------------------------------------------------------
(* The handshake *)

\* No blit is outstanding when the page has loaded.
LEMMA HandInit == Init => HandInv
  BY DEF Init, HandInv, Posts, Pending

\* The card posts only when the blit thread is done, and draws only when
\* buffer32 is free; the blit thread clears the flags in the opposite order.
LEMMA HandStep == TypeOK /\ HandInv /\ [Next]_vars => HandInv'
<1> SUFFICES ASSUME TypeOK, HandInv, [Next]_vars PROVE HandInv'
  OBVIOUS
<1> USE DEF TypeOK, HandInv, Posts, Pending, EmuPlaces, BlitPlaces, flags, emu, blit, js
<1>1. CASE FirstLine     BY <1>1 DEF FirstLine
<1>2. CASE Vsync         BY <1>2 DEF Vsync
<1>3. CASE PostBusy      BY <1>3 DEF PostBusy
<1>4. CASE PostInUse     BY <1>4 DEF PostInUse
<1>5. CASE PostRows      BY <1>5 DEF PostRows
<1>6. CASE PostWake      BY <1>6 DEF PostWake, SetWake
<1>7. CASE BlitWakes     BY <1>7 DEF BlitWakes
<1>8. CASE BlitResets    BY <1>8 DEF BlitResets
<1>9. CASE BlitStarts    BY <1>9 DEF BlitStarts
<1>10. CASE BlitEnds     BY <1>10 DEF BlitEnds
<1>11. CASE BlitReleases BY <1>11 DEF BlitReleases
<1>12. CASE BlitIdles    BY <1>12 DEF BlitIdles
<1>13. CASE BlitWaits    BY <1>13 DEF BlitWaits
<1>14. CASE DrawFrame    BY <1>14 DEF DrawFrame, SeeGeneration, PutImage, ReadLine
<1>15. ASSUME NEW l \in Lines, NEW p \in Pixels, DrawLine(l, p) PROVE HandInv'
  BY <1>15 DEF DrawLine
<1>16. ASSUME NEW l \in Lines, BlitCopies(l) PROVE HandInv'
  BY <1>16 DEF BlitCopies
<1>17. CASE UNCHANGED vars BY <1>17 DEF vars
<1> QED BY <1>1, <1>2, <1>3, <1>4, <1>5, <1>6, <1>7, <1>8, <1>9, <1>10, <1>11, <1>12, <1>13,
        <1>14, <1>15, <1>16, <1>17 DEF Next, Posting, Blitting

\* video_wait_for_buffer does its work: no line is drawn into buffer32 while the
\* blit thread reads it.
THEOREM CardWaitsForBuffer == Spec => []DrawingExcludesCopying
<1>1. HandInv => DrawingExcludesCopying
  BY DEF HandInv, Pending, DrawingExcludesCopying
<1> QED BY TypeInit, TypeStep, HandInit, HandStep, <1>1, PTL DEF Spec

----------------------------------------------------------------------------
(* The picture *)

\* All three bitmaps start blank.
LEMMA DataInit == Init => DataInv
  BY DEF Init, DataInv, Posts, Pending, SameOutside, Blank

\* The rows posted include every row drawn since the last post.
LEMMA RowsCover == \A drawn \in SUBSET Lines : drawn \subseteq RowsOf(drawn)
  BY PictureAssumption DEF RowsOf, Lines

\* Every step keeps the rows the invariant follows: drawn, posted, copied.
LEMMA DataStep == TypeOK /\ HandInv /\ DataInv /\ [Next]_vars => DataInv'
<1> SUFFICES ASSUME TypeOK, HandInv, DataInv, [Next]_vars PROVE DataInv'
  OBVIOUS
<1> USE DEF TypeOK, HandInv, DataInv, SameOutside, Posts, Pending, flags, emu, blit, js
<1>1. CASE FirstLine     BY <1>1 DEF FirstLine
<1>2. CASE Vsync         BY <1>2 DEF Vsync
<1>3. CASE PostBusy      BY <1>3 DEF PostBusy
<1>4. CASE PostInUse     BY <1>4 DEF PostInUse
<1>5. CASE PostRows      BY <1>5, RowsCover DEF PostRows
<1>6. CASE PostWake      BY <1>6 DEF PostWake, SetWake
<1>7. CASE BlitWakes     BY <1>7 DEF BlitWakes
<1>8. CASE BlitResets    BY <1>8 DEF BlitResets
<1>9. CASE BlitStarts    BY <1>9 DEF BlitStarts
<1>10. CASE BlitEnds     BY <1>10 DEF BlitEnds
<1>11. CASE BlitReleases BY <1>11 DEF BlitReleases
<1>12. CASE BlitIdles    BY <1>12 DEF BlitIdles
<1>13. CASE BlitWaits    BY <1>13 DEF BlitWaits
<1>14. CASE DrawFrame    BY <1>14 DEF DrawFrame, SeeGeneration, PutImage, ReadLine
<1>15. ASSUME NEW l \in Lines, NEW p \in Pixels, DrawLine(l, p) PROVE DataInv'
  BY <1>15 DEF DrawLine
<1>16. ASSUME NEW l \in Lines, BlitCopies(l) PROVE DataInv'
  BY <1>16 DEF BlitCopies
<1>17. CASE UNCHANGED vars BY <1>17 DEF vars
<1> QED BY <1>1, <1>2, <1>3, <1>4, <1>5, <1>6, <1>7, <1>8, <1>9, <1>10, <1>11, <1>12, <1>13,
        <1>14, <1>15, <1>16, <1>17 DEF Next, Posting, Blitting

\* The inductive invariant holds throughout.
THEOREM Inductive == Spec => []IInv
<1>1. Init => IInv
  BY TypeInit, HandInit, DataInit DEF IInv
<1>2. IInv /\ [Next]_vars => IInv'
  BY TypeStep, HandStep, DataStep DEF IInv
<1> QED BY <1>1, <1>2, PTL DEF Spec

\* Between blits the shadow framebuffer is the last posted picture: no frame is
\* lost, torn or overwritten, although only the changed rows are copied.
THEOREM ShadowFollows == Spec => []ShadowIsPicture
<1>1. IInv => ShadowIsPicture
  BY DEF IInv, HandInv, DataInv, Posts, Pending, ShadowIsPicture
<1> QED BY Inductive, <1>1, PTL
=============================================================================
