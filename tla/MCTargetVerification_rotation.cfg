SPECIFICATION Spec
CONSTANTS
  Requests = {q1, q2}
  MaxChallenges = 2
  Horizon = 2
  Cooldown = 1
  ChallengeTtl = 1
  MaxAge = 1
  Null = Null
PROPERTY RotationRevokes
