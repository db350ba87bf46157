SPECIFICATION EdgeSpec
CONSTANTS
 d1 = d1
 d2 = d2
 i1 = i1
 i2 = i2
 r1 = r1
 r2 = r2
 j1 = j1
 j2 = j2
 t1 = t1
 t2 = t2
 c1 = c1
 c2 = c2
 Nobody = Nobody
 Device = {d1, d2}
 Invite = {i1, i2}
 Revoker = {r1, r2}
 Call = {j1, j2}
 Turn = {t1, t2}
 Click = {c1, c2}
 MaxCrashes = 1
 Budget <- Budgets
INVARIANTS EdgeTypeOK InviteIsRedeemedOnce CameraServesRequest FrameIsOfSource
PROPERTIES ClosedCaseIsRevoked BindingIsKept
CHECK_DEADLOCK FALSE
