----------------------------- MODULE ImageSharing -----------------------------
(* What leaves a device of a camera frame: the consent gate maybeShareImage of *)
(* the edge Worker SDK, the crop, masks and downscaling before it, and the     *)
(* reading of a share request an agent sends with a capture.                   *)
(*                                                                             *)
(* A pixel holds, instead of a colour, the set of the pixels of the camera its *)
(* colour was computed from; alpha is left out.  A number a request may give   *)
(* with a fraction (a coordinate, maxEdge) is counted in halves.               *)
EXTENDS Integers, SequencesExt

Pixels(width, height) == (0 .. width - 1) \X (0 .. height - 1)

\* A frame as the camera delivers it.
CameraFrame(w, h) == [width |-> w, height |-> h, data |-> [p \in Pixels(w, h) |-> {p}]]

NoFrame == CameraFrame(0, 0)

\* The pixels of the camera that a frame still tells something about.
Shown(frame) == UNION {frame.data[p] : p \in DOMAIN frame.data}

-----------------------------------------------------------------------------
(* frame-processing.ts *)

\* Math.round of a number of halves.
toInt(halves) == (halves + 1) \div 2

\* The larger of two numbers but at most bound.
Within(least, n, bound) ==
    LET high == IF n > least THEN n ELSE least IN IF high < bound THEN high ELSE bound

clampRect(rect, width, height) ==
    LET x0 == Within(0, toInt(rect.x), width)
        y0 == Within(0, toInt(rect.y), height)
        x1 == Within(x0, toInt(rect.x + rect.width), width)
        y1 == Within(y0, toInt(rect.y + rect.height), height)
    IN [x |-> x0, y |-> y0, width |-> x1 - x0, height |-> y1 - y0]

Inside(p, r) == /\ r.x <= p[1] /\ p[1] < r.x + r.width
                /\ r.y <= p[2] /\ p[2] < r.y + r.height

\* r is clamped and not empty.
cropFrame(frame, r) ==
    [width |-> r.width, height |-> r.height,
     data |-> [p \in Pixels(r.width, r.height) |-> frame.data[<<r.x + p[1], r.y + p[2]>>]]]

\* Every mask in turn replaces what it covers by one colour.
blackout(frame, masks) ==
    LET Masked(p) == \E i \in DOMAIN masks :
                        Inside(p, clampRect(masks[i], frame.width, frame.height))
    IN [width |-> frame.width, height |-> frame.height,
        data |-> [p \in Pixels(frame.width, frame.height) |->
                     IF Masked(p) THEN {} ELSE frame.data[p]]]

\* One mask averages each of its blocks, the last ones cut off at its edge.
pixelateRect(frame, mask, blockSize) ==
    LET r == clampRect(mask, frame.width, frame.height)
        Block(p) == {q \in DOMAIN frame.data :
                        /\ Inside(q, r)
                        /\ (q[1] - r.x) \div blockSize = (p[1] - r.x) \div blockSize
                        /\ (q[2] - r.y) \div blockSize = (p[2] - r.y) \div blockSize}
    IN [frame EXCEPT !.data = [p \in DOMAIN frame.data |->
                                   IF Inside(p, r) THEN UNION {frame.data[q] : q \in Block(p)}
                                                   ELSE frame.data[p]]]

DefaultBlock == 12

maskRegions(frame, masks, mode, blockSize) ==
    IF mode = "blackout" THEN blackout(frame, masks)
    ELSE FoldLeft(LAMBDA f, m : pixelateRect(f, m, blockSize), frame, masks)

\* The length of an edge after scaling: Math.max(1, Math.round(edge * maxEdge / longest)).
ScaledEdge(edge, longest, maxEdge) ==
    LET rounded == (edge * maxEdge + longest) \div (2 * longest)
    IN IF rounded < 1 THEN 1 ELSE rounded

\* Pixel n of an edge scaled to `to` pixels averages the pixels s of the old edge.
Averages(n, s, edge, to) ==
    LET first == (n * edge) \div to
        next  == ((n + 1) * edge) \div to
    IN first <= s /\ (s < next \/ s = first)

downscaleFrame(frame, maxEdge) ==
    LET longest == IF frame.width > frame.height THEN frame.width ELSE frame.height
        tw == ScaledEdge(frame.width, longest, maxEdge)
        th == ScaledEdge(frame.height, longest, maxEdge)
        Box(p) == {q \in DOMAIN frame.data : /\ Averages(p[1], q[1], frame.width, tw)
                                             /\ Averages(p[2], q[2], frame.height, th)}
    IN IF 2 * longest <= maxEdge THEN frame
       ELSE [width |-> tw, height |-> th,
             data |-> [p \in Pixels(tw, th) |-> UNION {frame.data[q] : q \in Box(p)}]]

-----------------------------------------------------------------------------
(* camera-diagnostic-agent.ts: the request as the agent of the device reads it. *)

\* A rectangle as it arrives: one without four numbers is dropped.
parseRect(raw) == raw.wellFormed

\* A request has a crop or none (a set of at most one), masks, a mode and maxEdge.
parseShare(raw) == [raw EXCEPT !.crop = {c \in raw.crop : parseRect(c)},
                               !.mask = SelectSeq(raw.mask, parseRect)]

-----------------------------------------------------------------------------
(* image-sharing.ts *)

\* All that has to agree before an image is made: the manifest's policy, the request
\* of the task, the approval given on the device for this capture, an encoder.
MayShare(asked, authorized, config) ==
    config.policy = "on-explicit-consent" /\ asked /\ authorized /\ config.encoder

\* The frame that is encoded.  An empty crop or a maxEdge below 1 throws: no image.
ProcessedFrame(frame, request) ==
    LET crops   == {clampRect(c, frame.width, frame.height) : c \in request.crop}
        cropped == IF crops = {} THEN frame ELSE cropFrame(frame, CHOOSE r \in crops : TRUE)
        masked  == maskRegions(cropped, request.mask, request.maskMode, DefaultBlock)
    IN IF (\E r \in crops : r.width < 1 \/ r.height < 1) \/ request.maxEdge < 2
       THEN NoFrame
       ELSE downscaleFrame(masked, request.maxEdge)

maybeShareImage(frame, asked, request, authorized, config) ==
    IF MayShare(asked, authorized, config) THEN ProcessedFrame(frame, request) ELSE NoFrame

\* createAnalyzerCaptureProvider: what a captured frame lets out of the device.
capture(frame, asked, raw, authorized, config) ==
    maybeShareImage(frame, asked, parseShare(raw), authorized, config)

-----------------------------------------------------------------------------
(* What a request lets out, said of the pixels of the camera. *)

\* The middle of pixel q lies in the rectangle.
Covers(rect, q) == /\ rect.x < 2 * q[1] + 1 /\ 2 * q[1] + 1 <= rect.x + rect.width
                   /\ rect.y < 2 * q[2] + 1 /\ 2 * q[2] + 1 <= rect.y + rect.height

\* The corner from which the masks of a request count: that of what is left by its crop.
Corner(request, w, h) ==
    IF request.crop = {} THEN <<0, 0>>
    ELSE LET r == clampRect(CHOOSE c \in request.crop : TRUE, w, h) IN <<r.x, r.y>>

\* The pixels inside the crop and outside every mask.
Released(request, w, h) ==
    LET corner == Corner(request, w, h)
    IN {q \in Pixels(w, h) :
           /\ \A c \in request.crop : Covers(c, q)
           /\ \A i \in DOMAIN request.mask :
                  ~ Covers(request.mask[i], <<q[1] - corner[1], q[2] - corner[2]>>)}
=============================================================================
