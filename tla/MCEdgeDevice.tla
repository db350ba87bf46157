----------------------------- MODULE MCEdgeDevice -----------------------------
(* An instance of EdgeDevice: two devices, two invites.  Either much is paired *)
(* or much is captured.  Its assumptions check ImageSharing on small frames    *)
(* against what theorem ReleasedExactly of EdgeDeviceProofs states for all.    *)
EXTENDS EdgeDevice

CONSTANTS d1, d2, i1, i2, r1, r2, j1, j2, t1, t2, c1, c2

Pairing == {[operator |-> 3, page |-> 2, join |-> 2, turn |-> 0, run |-> 0]}
Capture == {[operator |-> 1, page |-> 1, join |-> 1, turn |-> 2, run |-> 1]}
Leaving == {[operator |-> 1, page |-> 1, join |-> 2, turn |-> 1, run |-> 0]}
Budgets == Pairing \cup Capture \cup Leaving

-----------------------------------------------------------------------------
LOCAL INSTANCE ImageSharing

\* Rectangles that begin before the frame, end after it, are empty, lie between pixels.
Rects == [wellFormed : BOOLEAN, x : {-1, 1, 4}, y : {0, 3}, width : {2, 5}, height : {0, 3, 9}]

Sent == [crop : {{}} \cup {{r} : r \in Rects}, mask : {<<>>} \cup {<<r>> : r \in Rects},
         maskMode : {"blackout"}, maxEdge : {1, 3, 6, 20}]

\* A task that asks for an image gets the pixels inside its crop and outside its
\* masks, none of a rectangle that is not well formed, and no image without approval.
ASSUME ImageIsReleased ==
    \A raw \in Sent, authorized \in BOOLEAN :
       LET config == [policy |-> "on-explicit-consent", encoder |-> TRUE]
       IN Shown(capture(CameraFrame(4, 3), TRUE, raw, authorized, config)) =
             IF authorized /\ raw.maxEdge >= 2 THEN Released(parseShare(raw), 4, 3) ELSE {}

\* A pixelated mask mixes the pixels it covers with others it covers.  One pixel stays
\* what it was: the far corner of a mask that is one longer than its blocks both ways.
ASSUME PixelsAreMixed ==
    \A rect \in Rects :
       LET r    == clampRect(rect, 4, 3)
           data == maskRegions(CameraFrame(4, 3), <<rect>>, "pixelate", 2).data
       IN \A p \in Pixels(4, 3) :
             /\ p \in data[p]
             /\ ~ Inside(p, r) => data[p] = {p}
             /\ Inside(p, r) => /\ \A q \in data[p] : Inside(q, r)
                                /\ data[p] = {p} <=>
                                      /\ r.width % 2 = 1 /\ p[1] = r.x + r.width - 1
                                      /\ r.height % 2 = 1 /\ p[2] = r.y + r.height - 1
=============================================================================
