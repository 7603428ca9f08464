SPECIFICATION FairSpec
CONSTANTS
  MaxLogins = 2
  MaxActs = 1
  MaxIncidents = 2
CHECK_DEADLOCK FALSE
INVARIANTS NoGhostLogin NoForgottenConnection SocketsAccounted ComposerFrees NotSentTwice SavedLoginWorks
PROPERTY ChatComesBack
