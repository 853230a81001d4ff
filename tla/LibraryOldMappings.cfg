SPECIFICATION Spec
CONSTANTS
  cv1 = cv1
  cv2 = cv2
  d1 = d1
  d2 = d2
  u1 = u1
  none = none
  tech = tech
  text = text
  Cvs = {cv1, cv2}
  Docs = {d1}
  Repos = {u1}
  NoDoc = none
  Items = {tech}
  Texts = {text}
  NoText = none
  CvBullets <- OneBullet
  Payloads <- NothingOrBoth
  Targets = {1}
  MaxRows = 2
  FaultKinds = {"crash"}
  MaxFaults = 0
SYMMETRY Symmetry
INVARIANTS
  MappingsMatchTheCv
