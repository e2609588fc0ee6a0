SPECIFICATION FairSpec
CONSTANTS
  ali = ali
  mona = mona
  s1 = s1
  s2 = s2
  w1 = w1
  w2 = w2
  Sends = {s1, s2}
  Users = {ali, mona}
  Named <- MCNamed
  Workers = {w1, w2}
  Attempts = 2
  MaxEvents = 2
  Nobody = Nobody
INVARIANTS
  TypeOK
  OnceEach
  SentMeansDelivered
  ConsentRespected
PROPERTIES
  CampaignSettles
