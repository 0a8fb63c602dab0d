SPECIFICATION Spec
CONSTANTS
    h1 = h1
    h2 = h2
    NoHome = NoHome
    v1 = v1
    v2 = v2
    NoPlugin = NoPlugin
INVARIANTS LaunchSound PresenceHonoured
PROPERTIES DesktopSettles
