CONSTANTS
  s1 = s1
  s2 = s2
  s3 = s3
  phone = phone
  desk = desk
  Socket = {s1, s2}
  Session = {phone}
  SessionOf <- MCSessionOf
  Reader = {r1}
  MaxFaults = 2
SPECIFICATION Spec
PROPERTIES
  PresenceHeals
  GoneHeals
