CONSTANTS
    Users = {ann, bob}
    Founder = ann
    Invitations = {i1, i2}
    Handlers = {h1, h2}
    Nil = Nil
SPECIFICATION MembersSpec
SYMMETRY Symmetry
INVARIANTS
    OwnerKeptUnlessCrossed
    OneOpenInvitation
CHECK_DEADLOCK FALSE
